---------------------------- MODULE Spec2Model ----------------------------
(***************************************************************************)
(* Agent Teams Monitor: the State Store (src/state/teamState.ts), the      *)
(* derived statuses (src/utils.ts), the Recorder                           *)
(* (src/replay/autoRecorder.ts) and the Replay Engine                      *)
(* (src/replay/replayManager.ts).                                          *)
(***************************************************************************)
EXTENDS Integers, Sequences, FiniteSets, TLC

VARIABLES
  teams,      \* TeamStateManager.teams    : team name -> TeamConfig
  tasks,      \* TeamStateManager.tasks    : team name -> list of AgentTask
  messages,   \* TeamStateManager.messages : team name -> ordered map agent -> list of InboxEntry
  seen,       \* history: the participant names written for a session since it was last
              \* removed (all), and those of the latest descriptor written (last)
  scen,       \* history: how far the operations on a session have followed the spec's scenario
  removals,   \* history: per session, what held when its latest removal was notified
  recorders,            \* AutoRecorder.recorders : team name -> TeamRecording
  completedRecordings,  \* AutoRecorder.completedRecordings : team name -> outputDir
  debounceTimers,       \* AutoRecorder.debounceTimers : the teams with a capture pending
  disk,                 \* recordings on disk : dir -> frame files by number, and the manifest
  now,                  \* the wall clock, in seconds
  replayState,          \* TeamStateManager's replay state : team name -> TeamReplayState
  activeReplays,        \* ReplayManager.activeReplays : recording dir -> ActiveReplay, with the
                        \* frame its playback loop is waiting to apply
  applied,              \* history: per recording, the frames its latest replay has applied
  discarded,            \* history: the recordings in which a capture was discarded, at a later
                        \* time than that of the last frame stored
  snapshots,            \* SessionArchiver.snapshots : team name -> [config, firstSeen]
  sessions,             \* sessions.jsonl : the Session Summaries appended, oldest first
  historyDir,           \* SessionArchiver.historyDir is set (a workspace folder is open)
  files,                \* the watched directories ~/.claude/teams and ~/.claude/tasks
  teamsWatcher,         \* FileWatcher.teamsWatcher is set
  tasksWatcher,         \* FileWatcher.tasksWatcher is set
  detector,             \* FileWatcher's timers: pollTimer and scanTimer are running, the
                        \* debounceTimers map (one handle per path), the timeouts that are
                        \* scheduled and not cleared, and the watchers were closed
  subscriber            \* a listener on TeamStateManager.onDidChange, when one is registered:
                        \* the notifications it received during the latest handler that
                        \* wrote to the store

storeVars == <<teams, tasks, messages>>
histVars == <<seen, scen, removals>>
recVars == <<recorders, completedRecordings, debounceTimers, disk, now>>
repVars == <<replayState, activeReplays>>
arcVars == <<snapshots, sessions, historyDir>>
watchVars == <<files, teamsWatcher, tasksWatcher, detector>>
vars == <<teams, tasks, messages, seen, scen, removals, recorders, completedRecordings,
          debounceTimers, disk, now, replayState, activeReplays, applied, discarded,
          snapshots, sessions, historyDir, files, teamsWatcher, tasksWatcher, detector,
          subscriber>>

-----------------------------------------------------------------------------
(* Bounds *)

\* most messages held over all inboxes of one session
MaxMsgs == 2
\* timestamps are 1..MaxTs (ISO strings of one format compare like the instants they name)
MaxTs == 2
\* most frames stored in one recording
MaxFrames == 3
\* the wall clock runs over 0..MaxClock seconds
MaxClock == 2
\* most recordings started
MaxRecordings == 1

-----------------------------------------------------------------------------
(* Data: src/types.ts (src/unnamed/part_007) *)

LEAD == "team-lead"
Workers == {"w1", "w2"}
Agents == {LEAD} \cup Workers

\* TeamMember: the leader carries no color, a teammate does
LeadMember == [name |-> LEAD, agentType |-> "team-lead", color |-> ""]
WorkerMember(n, c) == [name |-> n, agentType |-> "general-purpose", color |-> c]

isTeamLead(member) == member.agentType = "team-lead"

\* InboxEntry.text: plain prose, or stringified JSON carrying a `type`
PlainText == [json |-> FALSE, type |-> ""]
TypedText(ty) == [json |-> TRUE, type |-> ty]
Null == [json |-> FALSE, type |-> "null"]

\* JSON.parse throws on prose (-> null); an object with a string `type` is returned
parseTypedMessage(text) ==
  IF text.json /\ text.type # "" THEN text ELSE Null

IsTyped(text, ty) ==
  LET typed == parseTypedMessage(text) IN typed # Null /\ typed.type = ty

Entry(f, txt, ts) == [from |-> f, text |-> txt, timestamp |-> ts]

-----------------------------------------------------------------------------
(* Helpers over sequences and ordered maps *)

Range(s) == {s[i] : i \in DOMAIN s}

RECURSIVE SeqSum(_)
SeqSum(s) == IF s = <<>> THEN 0 ELSE Head(s) + SeqSum(Tail(s))

RECURSIVE Flatten(_)
Flatten(ss) == IF ss = <<>> THEN <<>> ELSE Head(ss) \o Flatten(Tail(ss))

\* all orderings of a finite set
RECURSIVE Perms(_)
Perms(S) ==
  IF S = {} THEN {<<>>}
  ELSE UNION {{<<x>> \o p : p \in Perms(S \ {x})} : x \in S}

MemberNames(members) == {members[i].name : i \in DOMAIN members}

\* a set that leaves the value of an existing key alone
MapSetMemberKeepOld(ms, m) ==
  IF \E i \in DOMAIN ms : ms[i].name = m.name THEN ms ELSE Append(ms, m)

\* Map.set(m.name, m): an existing key keeps its position, a new key goes last
MapSetMember(ms, m) ==
  IF \E i \in DOMAIN ms : ms[i].name = m.name
  THEN LET i == CHOOSE j \in DOMAIN ms : ms[j].name = m.name
       IN [ms EXCEPT ![i] = m]
  ELSE Append(ms, m)

RECURSIVE MapSetAll(_, _)
MapSetAll(acc, new) ==
  IF new = <<>> THEN acc ELSE MapSetAll(MapSetMember(acc, Head(new)), Tail(new))

\* a descriptor write that forgets what was stored (what the merge is there to prevent)
MergeMembersReplace(old, new) == new

\* updateTeam's merge: knownMembers = Map(existing.members), then set every new member
MergeMembers(old, new) == MapSetAll(MapSetAll(<<>>, old), new)

\* the inbox map of a session (Map<string, InboxEntry[]> in insertion order)
TeamMsgs(t) == IF t \in DOMAIN messages THEN messages[t] ELSE <<>>

HasInbox(mm, a) == \E i \in DOMAIN mm : mm[i].agent = a

\* Map.get(a) ?? []
InboxOf(mm, a) ==
  IF HasInbox(mm, a)
  THEN mm[CHOOSE i \in DOMAIN mm : mm[i].agent = a].entries
  ELSE <<>>

\* a set that appends the entries to the inbox stored
InboxSetAppending(mm, a, entries) ==
  IF HasInbox(mm, a)
  THEN [mm EXCEPT ![CHOOSE i \in DOMAIN mm : mm[i].agent = a] =
            [agent |-> a, entries |-> @.entries \o entries]]
  ELSE Append(mm, [agent |-> a, entries |-> entries])

\* Map.set(a, entries)
InboxSet(mm, a, entries) ==
  IF HasInbox(mm, a)
  THEN [mm EXCEPT ![CHOOSE i \in DOMAIN mm : mm[i].agent = a] =
            [agent |-> a, entries |-> entries]]
  ELSE Append(mm, [agent |-> a, entries |-> entries])

MsgCount(mm) == SeqSum([i \in DOMAIN mm |-> Len(mm[i].entries)])

-----------------------------------------------------------------------------
(* State Store reads *)

getTasks(t) == IF t \in DOMAIN tasks THEN tasks[t] ELSE <<>>

getMessages(t, a) == InboxOf(TeamMsgs(t), a)

\* agents with a shutdown_approved in team-lead's inbox; looking in every inbox is the slip
getShutdownAgentsAnyInbox(t) ==
  LET all == Flatten([i \in DOMAIN TeamMsgs(t) |-> TeamMsgs(t)[i].entries])
  IN {all[i].from : i \in {j \in DOMAIN all : IsTyped(all[j].text, "shutdown_approved")}}

getShutdownAgents(t) ==
  LET leadMsgs == getMessages(t, LEAD)
  IN {leadMsgs[i].from :
        i \in {j \in DOMAIN leadMsgs : IsTyped(leadMsgs[j].text, "shutdown_approved")}}

\* the stored status passed through, without the promotion
getEffectiveTaskStatusStored(t, task) == task.status

getEffectiveTaskStatus(t, task) ==
  IF task.status = "completed" THEN "completed"
  ELSE IF task.status = "in_progress" /\ task.subject \in getShutdownAgents(t)
       THEN "completed"
       ELSE task.status

\* a scan that keeps the last message of the sender it meets, whatever the timestamps
LatestFromLastMet(es, a, latest) ==
  LET sent == {i \in DOMAIN es : es[i].from = a}
      last == CHOOSE i \in sent : \A j \in sent : j <= i
  IN IF sent = {} THEN latest
     ELSE <<[timestamp |-> es[last].timestamp,
             isIdle |-> IsTyped(es[last].text, "idle_notification")]>>

\* rule 3's scan: `latest` is <<>> or <<[timestamp, isIdle]>>; a later entry replaces it
\* only when its timestamp is strictly greater
RECURSIVE LatestFrom(_, _, _)
LatestFrom(es, a, latest) ==
  IF es = <<>> THEN latest
  ELSE LET e == Head(es)
           take == e.from = a /\ (latest = <<>> \/ e.timestamp > latest[1].timestamp)
           nxt == IF take
                  THEN <<[timestamp |-> e.timestamp,
                          isIdle |-> IsTyped(e.text, "idle_notification")]>>
                  ELSE latest
       IN LatestFrom(Tail(es), a, nxt)

AllEntries(t) == Flatten([i \in DOMAIN TeamMsgs(t) |-> TeamMsgs(t)[i].entries])

\* the same function with rules 1 and 2 tried in the other order
getAgentLifecycleStateSwapped(t, a) ==
  LET leadMsgs == getMessages(t, LEAD)
      agentMsgs == getMessages(t, a)
      latest == LatestFrom(AllEntries(t), a, <<>>)
  IN IF \E i \in DOMAIN agentMsgs : IsTyped(agentMsgs[i].text, "shutdown_request")
     THEN "shutting_down"
     ELSE IF \E i \in DOMAIN leadMsgs :
               IsTyped(leadMsgs[i].text, "shutdown_approved") /\ leadMsgs[i].from = a
          THEN "shutdown"
          ELSE IF latest # <<>> /\ latest[1].isIdle THEN "idle" ELSE "active"

getAgentLifecycleState(t, a) ==
  LET leadMsgs == getMessages(t, LEAD)
      agentMsgs == getMessages(t, a)
      latest == LatestFrom(AllEntries(t), a, <<>>)
  IN IF \E i \in DOMAIN leadMsgs :
          IsTyped(leadMsgs[i].text, "shutdown_approved") /\ leadMsgs[i].from = a
     THEN "shutdown"
     ELSE IF \E i \in DOMAIN agentMsgs : IsTyped(agentMsgs[i].text, "shutdown_request")
          THEN "shutting_down"
          ELSE IF latest # <<>> /\ latest[1].isIdle THEN "idle" ELSE "active"

\* Map name -> lifecycle over the stored members; the leader is set to active
getAgentLifecycleStates(t) ==
  IF t \notin DOMAIN teams THEN << >>
  ELSE LET ms == teams[t].members
       IN [n \in MemberNames(ms) |->
             LET m == ms[CHOOSE i \in DOMAIN ms :
                           ms[i].name = n /\ \A j \in DOMAIN ms : ms[j].name = n => j <= i]
             IN IF isTeamLead(m) THEN "active" ELSE getAgentLifecycleState(t, n)]

\* deriveTeamStatus without the guard on an empty list of non-leaders
deriveTeamStatusNoGuard(lifecycleStates, members) ==
  LET nonLead == {n \in DOMAIN lifecycleStates :
                    ~ \E i \in DOMAIN members : isTeamLead(members[i]) /\ members[i].name = n}
  IN IF \A n \in nonLead : lifecycleStates[n] = "shutdown"
     THEN "completed"
     ELSE IF \E n \in nonLead : lifecycleStates[n] \in {"shutting_down", "shutdown"}
          THEN "winding_down"
          ELSE "active"

deriveTeamStatus(lifecycleStates, members) ==
  LET nonLead == {n \in DOMAIN lifecycleStates :
                    ~ \E i \in DOMAIN members : isTeamLead(members[i]) /\ members[i].name = n}
  IN IF nonLead # {} /\ \A n \in nonLead : lifecycleStates[n] = "shutdown"
     THEN "completed"
     ELSE IF \E n \in nonLead : lifecycleStates[n] \in {"shutting_down", "shutdown"}
          THEN "winding_down"
          ELSE "active"

\* DashboardPanel.getDataPayload: the session status shown for a stored session
TeamStatus(t) == deriveTeamStatus(getAgentLifecycleStates(t), teams[t].members)

-----------------------------------------------------------------------------
(* State Store writes *)

\* the teams map after updateTeam(name, config)
TeamsWith(tm, name, config) ==
  LET merged == IF name \in DOMAIN tm
                THEN [config EXCEPT !.members = MergeMembers(tm[name].members, config.members)]
                ELSE config
  IN (name :> merged) @@ tm

\* an update that pushes the item whether or not its id is stored
TasksWithPushOnly(tk, t, task) ==
  (t :> Append(IF t \in DOMAIN tk THEN tk[t] ELSE << >>, task)) @@ tk

\* the tasks map after updateTask(t, task)
TasksWith(tk, t, task) ==
  LET existing == IF t \in DOMAIN tk THEN tk[t] ELSE << >>
      upd == IF \E i \in DOMAIN existing : existing[i].id = task.id
             THEN [existing EXCEPT ![CHOOSE i \in DOMAIN existing :
                                        existing[i].id = task.id
                                        /\ \A j \in DOMAIN existing :
                                             existing[j].id = task.id => i <= j] = task]
             ELSE Append(existing, task)
  IN (t :> upd) @@ tk

\* the messages map after setMessages(t, a, entries)
MessagesWith(mm, t, a, entries) ==
  (t :> InboxSet(IF t \in DOMAIN mm THEN mm[t] ELSE << >>, a, entries)) @@ mm

updateTeam(name, config) == teams' = TeamsWith(teams, name, config)

\* an upsert that reports every write as an update
updateTeamEventAlwaysUpdated(tm, name) == "teamUpdated"

\* the type updateTeam fires: existing ? 'teamUpdated' : 'teamAdded'
updateTeamEvent(tm, name) == IF name \in DOMAIN tm THEN "teamUpdated" ELSE "teamAdded"

\* _onDidChange.fire(e) as a listener takes it: the event, and the session as the store
\* holds it during the delivery
Notification(type, t, tm, tk, mm) ==
  [type |-> type, teamName |-> t,
   team |-> IF t \in DOMAIN tm THEN <<tm[t]>> ELSE << >>,
   tasks |-> IF t \in DOMAIN tk THEN tk[t] ELSE << >>,
   messages |-> IF t \in DOMAIN mm THEN mm[t] ELSE << >>]

NoSubscriber == [registered |-> FALSE, received |-> << >>]

\* the listener after a handler that fired the notifications ns, in this order
Delivered(sub, ns) == IF sub.registered THEN [sub EXCEPT !.received = ns] ELSE sub

updateTask(t, task) == tasks' = TasksWith(tasks, t, task)

setMessages(t, a, entries) == messages' = MessagesWith(messages, t, a, entries)

Without(f, k) == [x \in (DOMAIN f) \ {k} |-> f[x]]

removeTeam(t) ==
  /\ teams' = Without(teams, t)
  /\ tasks' = Without(tasks, t)
  /\ messages' = Without(messages, t)

-----------------------------------------------------------------------------
(* Replay state kept by the State Store *)

\* the session is the subject of a replay that is playing
IsPlaying(rs, t) == t \in DOMAIN rs /\ rs[t].status = "playing"

isTeamReplaying(t) == IsPlaying(replayState, t)

InitReplay ==
  /\ replayState = << >>
  /\ activeReplays = << >>
  /\ applied = << >>

-----------------------------------------------------------------------------
(* Recorder: src/replay/autoRecorder.ts *)

\* `${date}_${teamName}_${HHMMSS}`: the session's name and the second the recording starts in
OutputDir(t, time) == <<t, time>>

EmptyDir == [frames |-> << >>, manifest |-> << >>]

\* taskMap[t.id] = t over the list: the last item of an id stays
TaskMap(ts) ==
  [id \in {ts[i].id : i \in DOMAIN ts} |->
     ts[CHOOSE i \in DOMAIN ts : ts[i].id = id /\ \A j \in DOMAIN ts : ts[j].id = id => j <= i]]

buildFrameFromState(t) ==
  IF t \notin DOMAIN teams
  THEN [timestamp |-> now, elapsed_ms |-> 0, teams |-> << >>, tasks |-> << >>]
  ELSE [timestamp |-> now,
        elapsed_ms |-> 0,
        teams |-> (t :> [config |-> teams[t], inboxes |-> TeamMsgs(t)]),
        tasks |-> IF getTasks(t) # << >> THEN (t :> TaskMap(getTasks(t))) ELSE << >>]

\* a hash over the whole frame, the wall timestamp and the elapsed time included
hashFrameWhole(frame) == frame

\* md5 of JSON.stringify({teams, tasks}), taken as one-to-one on what it is given
hashFrame(frame) == [teams |-> frame.teams, tasks |-> frame.tasks]

\* a manifest write that is left out
writeManifestSkipped(recording, dsk) == dsk

writeManifest(recording, dsk) ==
  [dsk EXCEPT ![recording.outputDir].manifest =
     <<[name |-> recording.teamName,
        startedAt |-> recording.startTime,
        endedAt |-> now,
        frameCount |-> recording.frameCount,
        teamNames |-> <<recording.teamName>>]>>]

\* a capture that stores nothing
captureFrameImmediateSkipped(t) == [recording |-> recorders[t], disk |-> disk]

\* captureFrameImmediate on an active recording: the recording and the disk after it
captureFrameImmediate(t) ==
  LET recording == recorders[t]
      frame == buildFrameFromState(t)
      hash == hashFrame(frame)
  IN IF recording.lastHash = <<hash>>
     THEN [recording |-> recording, disk |-> disk]
     ELSE LET rec2 == [recording EXCEPT !.lastHash = <<hash>>, !.frameCount = @ + 1]
              stored == [frame EXCEPT !.elapsed_ms = now - recording.startTime]
              dsk2 == [disk EXCEPT ![recording.outputDir].frames =
                         (rec2.frameCount :> stored) @@ @]
          IN [recording |-> rec2, disk |-> writeManifest(rec2, dsk2)]

\* captureFrame: (re)start the debounce timer of a session that has a recording
captureFrame(t, recs) ==
  debounceTimers' = IF t \in DOMAIN recs THEN debounceTimers \cup {t} ELSE debounceTimers

\* the recorder's subscription takes the event of this type for a capture
WantsCapture(type, t, rs) ==
  /\ type \in {"teamUpdated", "taskUpdated", "messageReceived"}
  /\ ~ IsPlaying(rs, t)
  /\ t \in DOMAIN recorders

\* extension.ts, state.onDidChange: on teamUpdated, taskUpdated and messageReceived (not on
\* teamAdded or teamRemoved) schedule a capture for a session that is recorded and is not
\* under replay
onDidChange(type, t) ==
  /\ IF WantsCapture(type, t, replayState)
     THEN captureFrame(t, recorders)
     ELSE UNCHANGED debounceTimers
  /\ UNCHANGED <<recorders, completedRecordings, disk>>

startRecording(t) ==
  LET outputDir == OutputDir(t, now)
  IN /\ recorders' = (t :> [teamName |-> t, outputDir |-> outputDir, frameCount |-> 0,
                            startTime |-> now, lastHash |-> << >>]) @@ recorders
     /\ disk' = IF outputDir \in DOMAIN disk THEN disk ELSE (outputDir :> EmptyDir) @@ disk
     /\ captureFrame(t, recorders')
     /\ UNCHANGED completedRecordings

\* a stop that leaves the pending capture timer running
stopRecordingKeepTimer(t) ==
  LET cap == captureFrameImmediate(t)
  IN /\ debounceTimers' = debounceTimers
     /\ disk' = writeManifest(cap.recording, cap.disk)
     /\ completedRecordings' = (t :> cap.recording.outputDir) @@ completedRecordings
     /\ recorders' = Without(recorders, t)

stopRecording(t) ==
  LET cap == captureFrameImmediate(t)
  IN /\ debounceTimers' = debounceTimers \ {t}
     /\ disk' = writeManifest(cap.recording, cap.disk)
     /\ completedRecordings' = (t :> cap.recording.outputDir) @@ completedRecordings
     /\ recorders' = Without(recorders, t)

InitRecorder ==
  /\ recorders = << >>
  /\ completedRecordings = << >>
  /\ debounceTimers = {}
  /\ disk = << >>
  /\ now = 0
  /\ discarded = {}

-----------------------------------------------------------------------------
(* Archiver: SessionArchiver (src/replay/types.ts, from line 20) *)

\* the snapshot of a session is created, or its descriptor replaced by the stored one
onTeamDetected(snaps, tm, t, time) ==
  IF t \notin DOMAIN tm THEN snaps
  ELSE IF t \in DOMAIN snaps
       THEN [snaps EXCEPT ![t].config = tm[t]]
       ELSE (t :> [config |-> tm[t], firstSeen |-> time]) @@ snaps

\* the periodic refresh: the same for every session the store holds
refreshSnapshots(snaps, tm, time) ==
  [t \in DOMAIN snaps \cup DOMAIN tm |->
     IF t \in DOMAIN tm
     THEN [config |-> tm[t],
           firstSeen |-> IF t \in DOMAIN snaps THEN snaps[t].firstSeen ELSE time]
     ELSE snaps[t]]

\* every entry of every inbox of the session
EntriesOf(mm) == Flatten([i \in DOMAIN mm |-> mm[i].entries])

\* the fingerprints `${entry.text}|${entry.timestamp}` that are met more than once
BroadcastKeys(mm) ==
  LET all == EntriesOf(mm)
      key(e) == <<e.text, e.timestamp>>
  IN {k \in {key(all[i]) : i \in DOMAIN all} :
        Cardinality({i \in DOMAIN all : key(all[i]) = k}) > 1}

\* the record of one session; extension.ts never calls setAutoRecorder, so the Archiver has
\* no recorder to ask and the recording path stays empty and the frame count 0
buildSessionRecord(t, config, firstSeen, taskList, mm) ==
  LET completedTasks == Cardinality({i \in DOMAIN taskList : taskList[i].status = "completed"})
      all == EntriesOf(mm)
  IN [teamName |-> t,
      startedAt |-> firstSeen,
      endedAt |-> now,
      agents |-> SelectSeq([i \in DOMAIN config.members |-> config.members[i].name],
                           LAMBDA n : \E i \in DOMAIN config.members :
                                        config.members[i].name = n
                                        /\ ~ isTeamLead(config.members[i])),
      tasks |-> [i \in DOMAIN taskList |->
                   [status |-> taskList[i].status, owner |-> taskList[i].subject]],
      stats |-> [totalTasks |-> Len(taskList),
                 completedTasks |-> completedTasks,
                 messageCount |-> Len(all),
                 broadcastCount |-> Cardinality(BroadcastKeys(mm)),
                 planApprovals |->
                   Cardinality({i \in DOMAIN all :
                                  IsTyped(all[i].text, "plan_approval_response")})],
      outcome |-> IF Len(taskList) = 0 THEN "no-tasks"
                  ELSE IF completedTasks = Len(taskList) THEN "completed"
                  ELSE IF completedTasks > 0 THEN "partial"
                  ELSE "abandoned",
      recordingPath |-> << >>,
      frameCount |-> 0]

\* archiveSession: the items and inboxes are read from the store as it is when the
\* notification is handled
archiveSession(log, tk, mm, t, config, firstSeen) ==
  IF ~ historyDir THEN log
  ELSE Append(log, buildSessionRecord(t, config, firstSeen,
                                      IF t \in DOMAIN tk THEN tk[t] ELSE << >>,
                                      IF t \in DOMAIN mm THEN mm[t] ELSE << >>))

\* a removal handler that archives whatever the replay state is
onTeamRemovedAlways(snaps, log, rs, tk, mm, t) ==
  IF t \notin DOMAIN snaps THEN [snapshots |-> snaps, sessions |-> log]
  ELSE [snapshots |-> Without(snaps, t),
        sessions |-> archiveSession(log, tk, mm, t, snaps[t].config, snaps[t].firstSeen)]

\* onTeamRemoved, given the store's items and inboxes at the time the notification is handled
onTeamRemoved(snaps, log, rs, tk, mm, t) ==
  IF t \notin DOMAIN snaps THEN [snapshots |-> snaps, sessions |-> log]
  ELSE IF IsPlaying(rs, t) THEN [snapshots |-> Without(snaps, t), sessions |-> log]
  ELSE [snapshots |-> Without(snaps, t),
        sessions |-> archiveSession(log, tk, mm, t, snaps[t].config, snaps[t].firstSeen)]

\* the Archiver's subscription to the store's change events
archiverOnDidChange(type, t) ==
  IF type = "teamUpdated"
  THEN /\ snapshots' = onTeamDetected(snapshots, teams', t, now)
       /\ UNCHANGED sessions
  ELSE IF type = "teamRemoved"
       THEN LET after == onTeamRemoved(snapshots, sessions, replayState, tasks', messages', t)
            IN /\ snapshots' = after.snapshots
               /\ sessions' = after.sessions
       ELSE UNCHANGED <<snapshots, sessions>>

InitArchiver ==
  /\ snapshots = << >>
  /\ sessions = << >>

\* neither watched directory exists yet; start() has not polled
\* broken: the files whose content JSON.parse rejects (caught in the middle of a write)
NoFiles ==
  [teamsDir |-> FALSE, tasksDir |-> FALSE, teams |-> << >>, tasks |-> << >>, broken |-> {}]

\* after start(): both intervals run, nothing is pending
Started ==
  [pollTimer |-> TRUE, scanTimer |-> TRUE, debounceTimers |-> {}, timeouts |-> {},
   closed |-> FALSE]

InitWatcher ==
  /\ files = NoFiles
  /\ teamsWatcher = FALSE
  /\ tasksWatcher = FALSE
  /\ detector = Started

-----------------------------------------------------------------------------
(* History variables *)

Off == "off"
NoneSeen == [all |-> {}, last |-> {}]
NoRemoval == [notified |-> FALSE, snapshot |-> FALSE, replaying |-> FALSE]

\* the spec's scenario (section 8): leader-only descriptor, then leader + w1, then item 1
\* owned by w1 in_progress, then a leader inbox holding a shutdown_approved from w1
ScenConfig1 == <<LeadMember>>
ScenConfig2 == <<LeadMember, WorkerMember("w1", "blue")>>
ScenTask == [id |-> "1", subject |-> "w1", status |-> "in_progress", blockedBy |-> <<>>]

ScenAfterTeam(t, config) ==
  IF scen[t] = "start" /\ config.members = ScenConfig1 THEN "leader"
  ELSE IF scen[t] = "leader" /\ config.members = ScenConfig2 THEN "joined"
  ELSE Off

ScenAfterTask(t, task) == IF scen[t] = "joined" /\ task = ScenTask THEN "item" ELSE Off

ScenAfterMessages(t, a, entries) ==
  IF /\ scen[t] = "item"
     /\ a = LEAD
     /\ \E i \in DOMAIN entries :
          entries[i].from = "w1" /\ entries[i].text = TypedText("shutdown_approved")
  THEN "approved"
  ELSE Off

-----------------------------------------------------------------------------
(* The State Store's mutation API as actions *)

\* each mutation fires its change event synchronously: the Recorder's and the Archiver's
\* subscriptions run within the call
UpdateTeam(t, config) ==
  /\ updateTeam(t, config)
  /\ onDidChange(updateTeamEvent(teams, t), t)
  /\ archiverOnDidChange(updateTeamEvent(teams, t), t)
  /\ subscriber' = Delivered(subscriber, <<Notification(updateTeamEvent(teams, t), t,
                                                        teams', tasks, messages)>>)
  /\ UNCHANGED <<tasks, messages, now, repVars, historyDir, watchVars>>

UpdateTask(t, task) ==
  /\ updateTask(t, task)
  /\ onDidChange("taskUpdated", t)
  /\ subscriber' = Delivered(subscriber, <<Notification("taskUpdated", t,
                                                        teams, tasks', messages)>>)
  /\ UNCHANGED <<teams, messages, now, repVars, arcVars, watchVars>>

SetMessages(t, a, entries) ==
  /\ setMessages(t, a, entries)
  /\ onDidChange("messageReceived", t)
  /\ subscriber' = Delivered(subscriber, <<Notification("messageReceived", t,
                                                        teams, tasks, messages')>>)
  /\ UNCHANGED <<teams, tasks, now, repVars, arcVars, watchVars>>

RemoveTeam(t) ==
  /\ removeTeam(t)
  /\ onDidChange("teamRemoved", t)
  /\ archiverOnDidChange("teamRemoved", t)
  /\ subscriber' = Delivered(subscriber, <<Notification("teamRemoved", t,
                                                        teams', tasks', messages')>>)
  /\ UNCHANGED <<now, repVars, historyDir, watchVars>>

\* what the history variables record of each call
SeenTeam(t, config) ==
  /\ UNCHANGED <<discarded, applied, removals>>
  /\ seen' = [seen EXCEPT ![t] = [all |-> @.all \cup MemberNames(config.members),
                                   last |-> MemberNames(config.members)]]
  /\ scen' = [scen EXCEPT ![t] = ScenAfterTeam(t, config)]

SeenTask(t, task) ==
  /\ scen' = [scen EXCEPT ![t] = ScenAfterTask(t, task)]
  /\ UNCHANGED <<seen, discarded, applied, removals>>

SeenMessages(t, a, entries) ==
  /\ scen' = [scen EXCEPT ![t] = ScenAfterMessages(t, a, entries)]
  /\ UNCHANGED <<seen, discarded, applied, removals>>

SeenRemoval(t) ==
  /\ UNCHANGED <<discarded, applied>>
  /\ removals' = [removals EXCEPT ![t] = [notified |-> TRUE,
                                          snapshot |-> t \in DOMAIN snapshots,
                                          replaying |-> isTeamReplaying(t)]]
  /\ seen' = [seen EXCEPT ![t] = NoneSeen]
  /\ scen' = [scen EXCEPT ![t] = "start"]

-----------------------------------------------------------------------------
(* Inputs *)

TeamNames == {"t1", "t2"}

WorkerColor(n) == IF n = "w1" THEN "blue" ELSE "green"

\* descriptors as the external writer produces them: the leader first, then any of the
\* workers in any order (a worker is dropped from the descriptor when it shuts down)
Descriptors(t) ==
  {[name |-> t,
    members |-> <<LeadMember>> \o [i \in DOMAIN p |-> WorkerMember(p[i], WorkerColor(p[i]))]] :
     p \in UNION {Perms(S) : S \in SUBSET Workers}}

Statuses == {"pending", "in_progress", "completed"}

Timestamps == 1..MaxTs

\* an inbox file read again: emptied, rewritten as one entry, or grown by one entry
InboxInputs(t, a, E) ==
  LET cur == getMessages(t, a)
      room == MsgCount(TeamMsgs(t)) - Len(cur)
  IN {es \in {<<>>} \cup {<<e>> : e \in E} \cup {Append(cur, e) : e \in E} :
        room + Len(es) <= MaxMsgs}

-----------------------------------------------------------------------------
(* Specification of the State Store: descriptors, work items and the leader's and one  *)
(* worker's inbox of one session                                                      *)

StoreTeams == {"t1"}
StoreTasks ==
  [id : {"1", "2"}, subject : Workers, status : Statuses, blockedBy : {<<>>}]
StoreInboxes == {LEAD, "w1"}
StoreEntries ==
  {Entry("w1", TypedText(ty), 1) : ty \in {"shutdown_approved", "shutdown_request"}}

Init ==
  /\ teams = << >>
  /\ tasks = << >>
  /\ messages = << >>
  /\ seen = [t \in TeamNames |-> NoneSeen]
  /\ removals = [t \in TeamNames |-> NoRemoval]
  /\ scen = [t \in TeamNames |-> "start"]
  /\ InitRecorder
  /\ InitReplay
  /\ InitArchiver
  /\ subscriber = NoSubscriber
  /\ historyDir = FALSE
  /\ InitWatcher

Next ==
  \E t \in StoreTeams :
    \/ \E config \in Descriptors(t) : UpdateTeam(t, config) /\ SeenTeam(t, config)
    \/ \E task \in StoreTasks : UpdateTask(t, task) /\ SeenTask(t, task)
    \/ \E a \in StoreInboxes : \E es \in InboxInputs(t, a, StoreEntries) :
         SetMessages(t, a, es) /\ SeenMessages(t, a, es)
    \/ RemoveTeam(t) /\ SeenRemoval(t)

Spec == Init /\ [][Next]_vars

-----------------------------------------------------------------------------------------------------------------------------------------------------
(* Specification of the derived lifecycle and session status: one session that starts  *)
(* with its leader alone, then w1 and w2 join; the leader's and w1's inbox hold what   *)
(* w1 sends (every kind of message) and what the leader sends (shutdown requests and   *)
(* idle notices)                                                                       *)

MessageTexts ==
  {PlainText} \cup
  {TypedText(ty) : ty \in {"idle_notification", "shutdown_request", "shutdown_approved"}}
LeadTexts == {TypedText(ty) : ty \in {"idle_notification", "shutdown_request"}}
LifeInboxes == {LEAD, "w1"}
LifeEntries ==
  {Entry("w1", txt, ts) : txt \in MessageTexts, ts \in Timestamps}
  \cup {Entry(LEAD, txt, ts) : txt \in LeadTexts, ts \in Timestamps}
LifeDescriptors(t) ==
  {[name |-> t, members |-> ScenConfig2],
   [name |-> t, members |-> Append(ScenConfig2, WorkerMember("w2", WorkerColor("w2")))]}

InitLife ==
  /\ teams = [t \in StoreTeams |-> [name |-> t, members |-> ScenConfig1]]
  /\ tasks = << >>
  /\ messages = << >>
  /\ seen = [t \in TeamNames |-> NoneSeen]
  /\ removals = [t \in TeamNames |-> NoRemoval]
  /\ scen = [t \in TeamNames |-> Off]
  /\ InitRecorder
  /\ InitReplay
  /\ InitArchiver
  /\ subscriber = NoSubscriber
  /\ historyDir = FALSE
  /\ InitWatcher

NextLife ==
  \E t \in StoreTeams :
    \/ \E config \in LifeDescriptors(t) : UpdateTeam(t, config) /\ UNCHANGED <<histVars, discarded, applied>>
    \/ \E a \in LifeInboxes : \E es \in InboxInputs(t, a, LifeEntries) :
         SetMessages(t, a, es) /\ UNCHANGED <<histVars, discarded, applied>>

SpecLife == InitLife /\ [][NextLife]_vars

-----------------------------------------------------------------------------
(* The Recorder's events as actions *)

\* extension.ts, watcher.onTeamAppeared: a session is detected; its name's resolution is
\* one second, and the session is not detected twice within the same second
TeamAppeared(t) ==
  /\ t \notin DOMAIN recorders
  /\ ~ isTeamReplaying(t)
  /\ OutputDir(t, now) \notin DOMAIN disk
  /\ Cardinality(DOMAIN disk) < MaxRecordings
  /\ startRecording(t)
  /\ UNCHANGED <<storeVars, now, repVars, arcVars, watchVars, subscriber>>

\* the debounce timer set by captureFrame fires
TimerFires(t) ==
  /\ t \in debounceTimers
  /\ t \in DOMAIN recorders
  /\ recorders[t].frameCount < MaxFrames
  /\ LET cap == captureFrameImmediate(t)
     IN /\ recorders' = [recorders EXCEPT ![t] = cap.recording]
        /\ disk' = cap.disk
  /\ debounceTimers' = debounceTimers \ {t}
  /\ UNCHANGED <<storeVars, completedRecordings, now, repVars, arcVars, watchVars,
                  subscriber>>

\* extension.ts, watcher.onTeamDisappeared
TeamDisappeared(t) ==
  /\ t \in DOMAIN recorders
  /\ recorders[t].frameCount < MaxFrames
  /\ stopRecording(t)
  /\ UNCHANGED <<storeVars, now, repVars, arcVars, watchVars, subscriber>>

Tick ==
  /\ now < MaxClock
  /\ now' = now + 1
  /\ UNCHANGED <<storeVars, recorders, completedRecordings, debounceTimers, disk, repVars,
                  arcVars, watchVars, subscriber>>

\* a capture of the session's recording is discarded in this step, later than the last
\* frame stored
SeenCapture(t) ==
  discarded' =
    IF /\ recorders[t].lastHash = <<hashFrame(buildFrameFromState(t))>>
       /\ disk[recorders[t].outputDir].frames[recorders[t].frameCount].timestamp < now
    THEN discarded \cup {recorders[t].outputDir}
    ELSE discarded

-----------------------------------------------------------------------------
(* Specification of the Recorder: one session whose descriptor and one work item change *)
(* while it is detected, recorded and lost again                                        *)

RecTeams == {"t1"}
RecDescriptors(t) == {[name |-> t, members |-> ms] : ms \in {ScenConfig1, ScenConfig2}}

NextRec ==
  \/ \E t \in RecTeams :
       \/ \E config \in RecDescriptors(t) :
            UpdateTeam(t, config) /\ UNCHANGED <<histVars, discarded, applied>>
       \/ UpdateTask(t, ScenTask) /\ UNCHANGED <<histVars, discarded, applied>>
       \/ RemoveTeam(t) /\ UNCHANGED <<histVars, discarded, applied>>
       \/ TeamAppeared(t) /\ UNCHANGED <<histVars, discarded, applied>>
       \/ TimerFires(t) /\ SeenCapture(t) /\ UNCHANGED <<histVars, applied>>
       \/ TeamDisappeared(t) /\ SeenCapture(t) /\ UNCHANGED <<histVars, applied>>
  \/ Tick /\ UNCHANGED <<histVars, discarded, applied>>

SpecRec == InitLife /\ [][NextRec]_vars

-----------------------------------------------------------------------------
(* Replay Engine: src/replay/replayManager.ts *)

\* the order in which JavaScript enumerates the keys used here: integer-like work item
\* ids ascending, session names as inserted
TaskIds == <<"1", "2">>
TeamOrder == <<"t1", "t2">>

KeysIn(order, f) == SelectSeq(order, LAMBDA k : k \in DOMAIN f)

\* Map.set(dir, replay) and Map.delete(dir) on activeReplays
ReplaySet(rs, r) ==
  IF \E i \in DOMAIN rs : rs[i].recordingDir = r.recordingDir
  THEN [rs EXCEPT ![CHOOSE i \in DOMAIN rs : rs[i].recordingDir = r.recordingDir] = r]
  ELSE Append(rs, r)

ReplayDelete(rs, dir) == SelectSeq(rs, LAMBDA r : r.recordingDir # dir)

\* the frame files of the directory, in file-name order
FramesOf(fr) ==
  LET nth(j) == CHOOSE k \in DOMAIN fr : Cardinality({x \in DOMAIN fr : x < k}) = j - 1
  IN [j \in 1..Cardinality(DOMAIN fr) |-> fr[nth(j)]]

loadFrames(dir) == IF dir \notin DOMAIN disk THEN << >> ELSE FramesOf(disk[dir].frames)

\* findRecordings: the directories that hold at least one frame file, each with its manifest
\* when there is one
Recordings ==
  {[dir |-> d, manifest |-> disk[d].manifest] :
     d \in {x \in DOMAIN disk : DOMAIN disk[x].frames # {}}}

extractTeamNames(recording, frames) ==
  IF recording.manifest # << >> /\ Len(recording.manifest[1].teamNames) > 0
  THEN recording.manifest[1].teamNames
  ELSE IF Len(frames) > 0 THEN KeysIn(TeamOrder, frames[1].teams) ELSE << >>

\* what a synchronous run of the engine works on: the State Store, the engine's own map,
\* the Recorder's timers and the Archiver's snapshots (through the store's change events)
\* and the log of frames applied
Machine ==
  [teams |-> teams, tasks |-> tasks, messages |-> messages, replayState |-> replayState,
   activeReplays |-> activeReplays, timers |-> debounceTimers, snapshots |-> snapshots,
   sessions |-> sessions, applied |-> applied, fired |-> << >>]

\* one statement after another: the value of x, then F of it
Then(x, F(_)) == CHOOSE y \in {F(v) : v \in {x}} : TRUE

\* the store's change event as the Recorder's and the Archiver's subscriptions take it
Fire(m, type, t) ==
  [m EXCEPT !.fired = Append(@, Notification(type, t, m.teams, m.tasks, m.messages)),
            !.timers = IF WantsCapture(type, t, m.replayState) THEN @ \cup {t} ELSE @,
            !.snapshots = IF type = "teamUpdated"
                          THEN onTeamDetected(@, m.teams, t, now)
                          ELSE IF type = "teamRemoved"
                          THEN onTeamRemoved(@, m.sessions, m.replayState, m.tasks,
                                             m.messages, t).snapshots
                          ELSE @,
            !.sessions = IF type = "teamRemoved"
                         THEN onTeamRemoved(m.snapshots, @, m.replayState, m.tasks,
                                            m.messages, t).sessions
                         ELSE @]

RECURSIVE ApplyInboxes(_, _, _)
ApplyInboxes(m, t, inboxes) ==
  IF inboxes = << >> THEN m
  ELSE Then(Fire([m EXCEPT !.messages =
                    MessagesWith(@, t, Head(inboxes).agent, Head(inboxes).entries)],
                 "messageReceived", t),
            LAMBDA m1 : ApplyInboxes(m1, t, Tail(inboxes)))

RECURSIVE ApplyTeams(_, _, _)
ApplyTeams(m, frame, names) ==
  IF names = << >> THEN m
  ELSE LET data == frame.teams[Head(names)]
           name == data.config.name
           ev == IF name \in DOMAIN m.teams THEN "teamUpdated" ELSE "teamAdded"
       IN Then(Fire([m EXCEPT !.teams = TeamsWith(@, name, data.config)], ev, name),
               LAMBDA m1 :
                 Then(ApplyInboxes(m1, Head(names), data.inboxes),
                      LAMBDA m2 : ApplyTeams(m2, frame, Tail(names))))

RECURSIVE ApplyTaskMap(_, _, _, _)
ApplyTaskMap(m, t, taskMap, ids) ==
  IF ids = << >> THEN m
  ELSE Then(Fire([m EXCEPT !.tasks = TasksWith(@, t, taskMap[Head(ids)])], "taskUpdated", t),
            LAMBDA m1 : ApplyTaskMap(m1, t, taskMap, Tail(ids)))

RECURSIVE ApplyTasks(_, _, _)
ApplyTasks(m, frame, names) ==
  IF names = << >> THEN m
  ELSE Then(ApplyTaskMap(m, Head(names), frame.tasks[Head(names)],
                         KeysIn(TaskIds, frame.tasks[Head(names)])),
            LAMBDA m1 : ApplyTasks(m1, frame, Tail(names)))

\* every session of the frame: descriptor upsert, per-inbox replace; then per-item upsert
applyFrame(m, frame) ==
  Then(ApplyTeams(m, frame, KeysIn(TeamOrder, frame.teams)),
       LAMBDA m1 : ApplyTasks(m1, frame, KeysIn(TeamOrder, frame.tasks)))

\* Math.round((i / n) * 100)
Pct(i, n) == (200 * i + n) \div (2 * n)

ReplayStateOf(r, status, currentFrame, pct) ==
  [recordingDir |-> r.recordingDir, status |-> status, speed |-> r.speed,
   currentFrame |-> currentFrame, totalFrames |-> Len(r.frames), progressPct |-> pct]

\* setTeamReplayState for each session of the replay
setTeamReplayStates(rs, r, st) == [t \in Range(r.teamNames) |-> st] @@ rs

clearTeamReplayState(rs, t) == Without(rs, t)

\* a `finally` that leaves the active set and writes no final replay state
finishRecordingStateless(m, r, finalStatus) ==
  [m EXCEPT !.activeReplays = ReplayDelete(@, r.recordingDir)]

\* playRecording's `finally`
finishRecording(m, r, finalStatus) ==
  LET rs == m.replayState
      mine(t) == ~ (t \in DOMAIN rs /\ rs[t].recordingDir # r.recordingDir)
      final(t) ==
        ReplayStateOf(r, finalStatus,
                      IF t \in DOMAIN rs THEN rs[t].currentFrame ELSE Len(r.frames),
                      IF finalStatus = "completed" THEN 100
                      ELSE IF t \in DOMAIN rs THEN rs[t].progressPct ELSE 0)
  IN [m EXCEPT !.replayState = [t \in {x \in Range(r.teamNames) : mine(x)} |-> final(t)] @@ rs,
               !.activeReplays = ReplayDelete(@, r.recordingDir)]

\* a loop that leaves a frame out
AfterFrameSkipping(i) == i + 2

\* the loop's i++
AfterFrame(i) == i + 1

\* a loop that waits between frames at every speed
WaitsAtAnySpeed(r, i) == i > 1 /\ r.frames[i].elapsed_ms - r.frames[i - 1].elapsed_ms > 0

\* the loop awaits cancellableSleep before frame i: not before the first frame, not in
\* instant mode (speed 0), not when no time has passed since the frame before
Waits(r, i) ==
  /\ i > 1
  /\ r.speed > 0
  /\ r.frames[i].elapsed_ms - r.frames[i - 1].elapsed_ms > 0

\* applyFrame raises: the frame's first session entry carries no descriptor, so that
\* reading config.name is a TypeError before anything is written to the store
applyFrameThrows(frame) ==
  LET names == KeysIn(TeamOrder, frame.teams)
  IN names # << >> /\ "config" \notin DOMAIN frame.teams[Head(names)]

\* playRecording's loop from frame i on (frames counted from 1), up to its next wait or its
\* end; `slept` says that the wait before frame i is over; an exception of applyFrame
\* leaves the loop for the `finally` with the token not cancelled
RECURSIVE playFrom(_, _, _, _)
playFrom(m, r, i, slept) ==
  IF i > Len(r.frames) THEN finishRecording(m, r, "completed")
  ELSE IF ~ slept /\ Waits(r, i)
       THEN [m EXCEPT !.activeReplays = ReplaySet(@, [r EXCEPT !.next = i])]
       ELSE IF applyFrameThrows(r.frames[i])
       THEN finishRecording(m, r, "completed")
       ELSE Then(applyFrame(m, r.frames[i]),
                 LAMBDA m1 :
                   Then(setTeamReplayStates(m1.replayState, r,
                          ReplayStateOf(r, "playing", i, Pct(i, Len(r.frames)))),
                        LAMBDA rs2 :
                          Then([m1 EXCEPT
                                  !.replayState = rs2,
                                  !.applied = [@ EXCEPT ![r.recordingDir] =
                                     Append(@, [frame |-> i,
                                                currentFrame |->
                                                  {rs2[t].currentFrame :
                                                     t \in Range(r.teamNames)}])]],
                               LAMBDA m2 : playFrom(m2, r, AfterFrame(i), FALSE))))

\* playRecording once the frames are loaded
playLoaded(m, recording, frames, speed) ==
  LET r == [recordingDir |-> recording.dir,
            teamNames |-> extractTeamNames(recording, frames),
            frames |-> frames, speed |-> speed, next |-> 1]
      m1 == [m EXCEPT
               !.activeReplays = ReplaySet(@, r),
               !.replayState = setTeamReplayStates(@, r, ReplayStateOf(r, "playing", 0, 0)),
               !.applied = (recording.dir :> << >>) @@ @]
  IN IF Len(frames) = 0 THEN m ELSE Then(m1, LAMBDA m2 : playFrom(m2, r, 1, FALSE))

playRecording(m, recording, speed) ==
  playLoaded(m, recording, loadFrames(recording.dir), speed)

\* selectedRecordings.map(r => playRecording(r, speed)): each runs up to its first wait
RECURSIVE playAll(_, _, _)
playAll(m, selected, speed) ==
  IF selected = << >> THEN m
  ELSE Then(playRecording(m, Head(selected), speed),
            LAMBDA m1 : playAll(m1, Tail(selected), speed))

\* startReplay from the conflict check on
startReplay(m, selected, speed) ==
  IF \E i \in DOMAIN selected :
       \E t \in Range(extractTeamNames(selected[i], loadFrames(selected[i].dir))) :
         IsPlaying(m.replayState, t)
  THEN m
  ELSE playAll(m, selected, speed)

\* cancellation reaches a replay in its wait: the wait ends at once and the loop breaks
RECURSIVE cancelAll(_, _)
cancelAll(m, replays) ==
  IF replays = << >> THEN m
  ELSE Then(finishRecording(m, Head(replays), "stopped"),
            LAMBDA m1 : cancelAll(m1, Tail(replays)))

\* stopTeamReplay: the first active replay that lists the session
ReplaysOf(t) == SelectSeq(activeReplays, LAMBDA r : t \in Range(r.teamNames))

CommitMachine(m) ==
  \E n \in {m} :
    /\ teams' = n.teams
    /\ tasks' = n.tasks
    /\ messages' = n.messages
    /\ replayState' = n.replayState
    /\ activeReplays' = n.activeReplays
    /\ debounceTimers' = n.timers
    /\ applied' = n.applied
    /\ snapshots' = n.snapshots
    /\ sessions' = n.sessions
    /\ subscriber' = Delivered(subscriber, n.fired)
    /\ UNCHANGED <<recorders, completedRecordings, disk, now, historyDir>>

\* a commit that also creates the sessions directory
CommitCreatingDirs(m) ==
  /\ CommitMachine(m)
  /\ files' = [files EXCEPT !.teamsDir = TRUE]
  /\ UNCHANGED <<teamsWatcher, tasksWatcher, detector>>

Commit(m) == CommitMachine(m) /\ UNCHANGED watchVars

\* agentTeams.replaySession, once the recordings and the speed are picked
StartReplay(selected, speed) ==
  \E m \in {Machine} : Commit(startReplay(m, selected, speed))

\* the wait before a frame is over
SleepEnds(dir) ==
  \E i \in DOMAIN activeReplays :
    /\ activeReplays[i].recordingDir = dir
    /\ Commit(playFrom(Machine, activeReplays[i], activeReplays[i].next, TRUE))

\* agentTeams.stopReplay
StopReplay ==
  /\ activeReplays # << >>
  /\ Commit(cancelAll(Machine, activeReplays))

\* agentTeams.stopTeamReplay
StopTeamReplay(t) ==
  /\ ReplaysOf(t) # << >>
  /\ Commit(finishRecording(Machine, Head(ReplaysOf(t)), "stopped"))

\* agentTeams.replayTeam up to its call of startReplay: the cancelled replay's `finally`
\* runs after the session's replay state is cleared
ReplayTeam(t) ==
  /\ t \in DOMAIN replayState \/ ReplaysOf(t) # << >>
  /\ LET m1 == [Machine EXCEPT !.replayState = clearTeamReplayState(@, t)]
     IN Commit(IF ReplaysOf(t) # << >>
               THEN finishRecording(m1, Head(ReplaysOf(t)), "stopped")
               ELSE m1)

\* replayTeam up to its call of startReplay, on the machine: cancel the first active replay
\* that lists the session and clear the session's replay state; the cancelled replay's
\* `finally` runs next
stopAndClear(m, t) ==
  LET m1 == [m EXCEPT !.replayState = clearTeamReplayState(@, t)]
      listing == SelectSeq(m.activeReplays, LAMBDA r : t \in Range(r.teamNames))
  IN IF listing # << >> THEN finishRecording(m1, Head(listing), "stopped") ELSE m1

\* startReplay's conflict check: a session of a selected recording is already playing
ConflictCheck(m, selected) ==
  \E i \in DOMAIN selected :
    \E t \in Range(extractTeamNames(selected[i], loadFrames(selected[i].dir))) :
      IsPlaying(m.replayState, t)

\* agentTeams.replayTeam(t, dir) with the speed picked at once
ReplayTeamRecording(t, recording, speed) ==
  \E m \in {stopAndClear(Machine, t)} : Commit(startReplay(m, <<recording>>, speed))

-----------------------------------------------------------------------------
(* Specification of the Replay Engine: three recordings on disk, two of session t1 as   *)
(* the Recorder writes them, and one without manifest that starts with session t2 alone *)
(* and holds t1 from its second frame on                                                *)

ConfigOf(t, members) == [name |-> t, members |-> members]
LeadInbox == <<[agent |-> LEAD, entries |-> <<Entry("w1", TypedText("shutdown_approved"), 1)>>]>>
FrameOf(el, teamsPart, tasksPart) ==
  [timestamp |-> el, elapsed_ms |-> el, teams |-> teamsPart, tasks |-> tasksPart]
ManifestOf(t, n) ==
  <<[name |-> t, startedAt |-> 0, endedAt |-> 0, frameCount |-> n, teamNames |-> <<t>>]>>

DirA == OutputDir("t1", 0)
DirB == OutputDir("t1", 1)
DirC == OutputDir("t2", 0)

ReplayDisk ==
  (DirA :> [manifest |-> ManifestOf("t1", 3),
            frames |-> <<
              FrameOf(0, ("t1" :> [config |-> ConfigOf("t1", ScenConfig1), inboxes |-> << >>]),
                      << >>),
              FrameOf(1, ("t1" :> [config |-> ConfigOf("t1", ScenConfig2), inboxes |-> LeadInbox]),
                      ("t1" :> ("1" :> ScenTask))),
              FrameOf(1, ("t1" :> [config |-> ConfigOf("t1", ScenConfig2), inboxes |-> LeadInbox]),
                      ("t1" :> ("1" :> [ScenTask EXCEPT !.status = "completed"]))) >>])
  @@
  (DirB :> [manifest |-> ManifestOf("t1", 2),
            frames |-> <<
              FrameOf(0, ("t1" :> [config |-> ConfigOf("t1", ScenConfig2), inboxes |-> << >>]),
                      << >>),
              FrameOf(2, ("t1" :> [config |-> ConfigOf("t1", ScenConfig2), inboxes |-> << >>]),
                      ("t1" :> ("2" :> [ScenTask EXCEPT !.id = "2"]))) >>])
  @@
  (DirC :> [manifest |-> << >>,
            frames |-> <<
              FrameOf(0, ("t2" :> [config |-> ConfigOf("t2", ScenConfig1), inboxes |-> << >>]),
                      << >>),
              FrameOf(1, ("t2" :> [config |-> ConfigOf("t2", ScenConfig2), inboxes |-> << >>])
                         @@ ("t1" :> [config |-> ConfigOf("t1", ScenConfig1), inboxes |-> << >>]),
                      << >>) >>])

Speeds == {0, 1}

\* the recordings picked in one request, in the order picked
Selections == UNION {Perms(S) : S \in (SUBSET Recordings) \ {{}}}

InitReplaying ==
  /\ teams = << >>
  /\ tasks = << >>
  /\ messages = << >>
  /\ seen = [t \in TeamNames |-> NoneSeen]
  /\ removals = [t \in TeamNames |-> NoRemoval]
  /\ scen = [t \in TeamNames |-> Off]
  /\ recorders = << >>
  /\ completedRecordings = << >>
  /\ debounceTimers = {}
  /\ disk = ReplayDisk
  /\ now = 0
  /\ discarded = {}
  /\ InitReplay
  /\ InitArchiver
  /\ subscriber = NoSubscriber
  /\ historyDir = FALSE
  /\ InitWatcher

NextReplay ==
  \/ \E selected \in Selections : \E speed \in Speeds :
       StartReplay(selected, speed) /\ UNCHANGED <<histVars, discarded>>
  \/ \E dir \in DOMAIN disk : SleepEnds(dir) /\ UNCHANGED <<histVars, discarded>>
  \/ StopReplay /\ UNCHANGED <<histVars, discarded>>
  \/ \E t \in TeamNames : StopTeamReplay(t) /\ UNCHANGED <<histVars, discarded>>
  \/ \E t \in TeamNames : ReplayTeam(t) /\ UNCHANGED <<histVars, discarded>>
  \/ \E t \in TeamNames : \E recording \in Recordings : \E speed \in Speeds :
       ReplayTeamRecording(t, recording, speed) /\ UNCHANGED <<histVars, discarded>>

SpecReplay == InitReplaying /\ [][NextReplay]_vars

-----------------------------------------------------------------------------
(* Claims on the State Store *)

StoredNames(t) == IF t \in DOMAIN teams THEN MemberNames(teams[t].members) ELSE {}

\* C1 (merge monotonicity): every participant name written in a descriptor for a session
\* since the session was last removed is in the session's stored member list.
C1_MergeMonotone == \A t \in TeamNames : seen[t].all \subseteq StoredNames(t)

\* C1's case: a name kept although the latest descriptor written omits it
C1_Witness ==
  \E t \in TeamNames : \E n \in Workers :
    n \in seen[t].all /\ n \notin seen[t].last /\ n \in StoredNames(t)

\* the leader's inbox holds a shutdown_approved typed message whose sender is p
ApprovedBy(t, p) ==
  LET inbox == InboxOf(TeamMsgs(t), LEAD)
  IN \E i \in DOMAIN inbox :
       inbox[i].from = p /\ inbox[i].text = TypedText("shutdown_approved")

\* C2 (effective-status promotion): an item stored in_progress and owned by P is
\* effective completed exactly when the leader's inbox holds a shutdown_approved sent by
\* P, and effective in_progress otherwise; stored completed and stored pending are
\* returned as they are.
C2_EffectivePromotion ==
  \A t \in DOMAIN tasks : \A i \in DOMAIN tasks[t] :
    LET task == tasks[t][i]
        eff == getEffectiveTaskStatus(t, task)
    IN /\ task.status = "in_progress" =>
            eff = (IF ApprovedBy(t, task.subject) THEN "completed" ELSE "in_progress")
       /\ task.status = "completed" => eff = "completed"
       /\ task.status = "pending" => eff = "pending"

\* C2's cases: an in_progress item promoted, and one whose owner's shutdown_approved sits
\* in another inbox than the leader's and is not promoted
C2_Witness ==
  \E t \in DOMAIN tasks : \E i, j \in DOMAIN tasks[t] :
    /\ tasks[t][i].status = "in_progress" /\ ApprovedBy(t, tasks[t][i].subject)
    /\ tasks[t][j].status = "in_progress" /\ ~ ApprovedBy(t, tasks[t][j].subject)
    /\ \E k \in DOMAIN InboxOf(TeamMsgs(t), "w1") :
         InboxOf(TeamMsgs(t), "w1")[k].text = TypedText("shutdown_approved")

ScenItem(t) == tasks[t][CHOOSE i \in DOMAIN tasks[t] : tasks[t][i].id = "1"]

\* C5 as the spec states it: after the scenario the session status is winding_down, item 1
\* is stored in_progress and is effective completed.
C5_ScenarioWindingDown ==
  \A t \in TeamNames :
    scen[t] = "approved" =>
      /\ TeamStatus(t) = "winding_down"
      /\ ScenItem(t).status = "in_progress"
      /\ getEffectiveTaskStatus(t, ScenItem(t)) = "completed"

\* C5 (amended): after the scenario the session status is completed (w1 is the only
\* non-leader and it is shutdown), item 1 is stored in_progress and is effective completed.
C5_ScenarioCompleted ==
  \A t \in TeamNames :
    scen[t] = "approved" =>
      /\ TeamStatus(t) = "completed"
      /\ ScenItem(t).status = "in_progress"
      /\ getEffectiveTaskStatus(t, ScenItem(t)) = "completed"

\* C5's case: the four operations of the scenario have run, in order, on an empty store
C5_Witness == \E t \in TeamNames : scen[t] = "approved"

-----------------------------------------------------------------------------
(* Claims on the Recorder *)

\* the session/work-item payload of a frame
Payload(frame) == <<frame.teams, frame.tasks>>

StoredFrames(d) == disk[d].frames
StoredCount(d) == Cardinality(DOMAIN StoredFrames(d))

\* the payload the State Store holds for the session equals that of the last frame stored
SameAsLastStored(t) ==
  /\ recorders[t].frameCount \in DOMAIN StoredFrames(recorders[t].outputDir)
  /\ Payload(StoredFrames(recorders[t].outputDir)[recorders[t].frameCount])
       = Payload(buildFrameFromState(t))

-----------------------------------------------------------------------------
(* Claims on the Replay Engine *)

\* the sessions a replay writes to: those it lists and those its frames hold
Drives(r) == Range(r.teamNames) \cup UNION {DOMAIN r.frames[i].teams : i \in DOMAIN r.frames}

\* C9: at no time is one session name driven by two active replays.
C9_OneReplayPerSession ==
  \A t \in TeamNames :
    Cardinality({i \in DOMAIN activeReplays : t \in Drives(activeReplays[i])}) <= 1

-----------------------------------------------------------------------------
(* Claims on the derived lifecycle and session status *)

\* rule 2: p's own inbox holds a shutdown_request typed message
RequestedOf(t, p) ==
  LET inbox == InboxOf(TeamMsgs(t), p)
  IN \E i \in DOMAIN inbox : inbox[i].text = TypedText("shutdown_request")

\* the messages sent by p, over all inboxes of the session, that no other one is later than
LatestSentBy(t, p) ==
  LET sent == {e \in Range(AllEntries(t)) : e.from = p}
  IN {e \in sent : \A f \in sent : f.timestamp <= e.timestamp}

IsIdleNotice(e) == e.text = TypedText("idle_notification")

\* C3 (lifecycle priority): for a non-leader P, shutdown exactly when the leader's inbox
\* holds a shutdown_approved sent by P, whatever else holds; shutting_down exactly when
\* that fails and P's own inbox holds a shutdown_request, whatever P's latest message is;
\* otherwise idle when P's latest messages are idle notices and active when none is.
C3_LifecyclePriority ==
  \A t \in TeamNames : \A p \in Workers :
    LET life == getAgentLifecycleState(t, p)
        r1 == ApprovedBy(t, p)
        r2 == RequestedOf(t, p)
        latest == LatestSentBy(t, p)
    IN /\ r1 <=> life = "shutdown"
       /\ (~ r1 /\ r2) <=> life = "shutting_down"
       /\ (~ r1 /\ ~ r2) =>
            /\ life \in {"idle", "active"}
            /\ (latest # {} /\ \A e \in latest : IsIdleNotice(e)) => life = "idle"
            /\ (\A e \in latest : ~ IsIdleNotice(e)) => life = "active"

\* C3's case: rule 1 wins although P's inbox holds a shutdown_request, and a state where
\* rule 1 wins although P's latest message is an idle notice
C3_Witness ==
  \E t \in TeamNames : \E p \in Workers :
    /\ ApprovedBy(t, p)
    /\ \/ RequestedOf(t, p)
       \/ (LatestSentBy(t, p) # {} /\ \A e \in LatestSentBy(t, p) : IsIdleNotice(e))
    /\ getAgentLifecycleState(t, p) = "shutdown"

NonLeaders(t) ==
  {teams[t].members[i].name :
     i \in {j \in DOMAIN teams[t].members : ~ isTeamLead(teams[t].members[j])}}

\* C4 as the spec states it: completed if every non-leader is shutdown (also when there is
\* no non-leader), else winding_down if some non-leader is shutting_down or shutdown, else
\* active.
C4_StatusEveryNonLeader ==
  \A t \in DOMAIN teams :
    LET life(n) == getAgentLifecycleState(t, n)
    IN TeamStatus(t) =
         (IF \A n \in NonLeaders(t) : life(n) = "shutdown" THEN "completed"
          ELSE IF \E n \in NonLeaders(t) : life(n) \in {"shutting_down", "shutdown"}
               THEN "winding_down"
               ELSE "active")

\* C4 (amended): completed if there is at least one non-leader and every non-leader is
\* shutdown, else winding_down if some non-leader is shutting_down or shutdown, else
\* active; a session without non-leader members is active.
C4_StatusSomeNonLeader ==
  \A t \in DOMAIN teams :
    LET life(n) == getAgentLifecycleState(t, n)
    IN TeamStatus(t) =
         (IF NonLeaders(t) # {} /\ \A n \in NonLeaders(t) : life(n) = "shutdown"
          THEN "completed"
          ELSE IF \E n \in NonLeaders(t) : life(n) \in {"shutting_down", "shutdown"}
               THEN "winding_down"
               ELSE "active")

\* C4's case: a session whose only member is the leader, with messages in its inboxes
C4_Witness ==
  \E t \in DOMAIN teams :
    NonLeaders(t) = {} /\ MsgCount(TeamMsgs(t)) > 0 /\ TeamStatus(t) = "active"

Leaders(t) ==
  {teams[t].members[i].name :
     i \in {j \in DOMAIN teams[t].members : isTeamLead(teams[t].members[j])}}

\* C6: the leader's derived lifecycle is active, from getAgentLifecycleState as well as
\* from getAgentLifecycleStates, whatever the inboxes hold.
C6_LeaderAlwaysActive ==
  \A t \in DOMAIN teams : \A l \in Leaders(t) :
    /\ getAgentLifecycleStates(t)[l] = "active"
    /\ getAgentLifecycleState(t, l) = "active"

-----------------------------------------------------------------------------
(* Claims on cancellation and on rejected replay requests *)

\* the step requests cancellation of the active replay r: stopReplay cancels every active
\* replay, stopTeamReplay(t) the first one that lists t
CancelRequested(r) ==
  \/ StopReplay
  \/ \E t \in TeamNames : StopTeamReplay(t) /\ Head(ReplaysOf(t)) = r

\* C11 (cancellation): once cancellation is requested for an active replay, by stopReplay
\* or by stopTeamReplay, no further frame of its recording is applied, its loop has exited
\* (the replay is no longer active) and the replay state of every session it covers is
\* stopped.
C11_Cancellation ==
  [][\A i \in DOMAIN activeReplays :
       LET r == activeReplays[i]
       IN CancelRequested(r) =>
            /\ applied'[r.recordingDir] = applied[r.recordingDir]
            /\ \A j \in DOMAIN activeReplays' :
                 activeReplays'[j].recordingDir # r.recordingDir
            /\ \A t \in Range(r.teamNames) :
                 t \in DOMAIN replayState' /\ replayState'[t].status = "stopped"]_vars

\* C20: a replay request that the conflict check rejects changes no descriptor, work item,
\* inbox or replay-state entry, cancels no running replay and makes no replay active,
\* whether it is made through startReplay or through replayTeam(T, dir).
C20_RejectedMutatesNothing ==
  [][/\ \A selected \in Selections : \A speed \in Speeds :
          (StartReplay(selected, speed) /\ ConflictCheck(Machine, selected))
            => UNCHANGED <<storeVars, repVars>>
     /\ \A t \in TeamNames : \A recording \in Recordings : \A speed \in Speeds :
          (/\ ReplayTeamRecording(t, recording, speed)
           /\ ConflictCheck(stopAndClear(Machine, t), <<recording>>))
            => UNCHANGED <<storeVars, repVars>>]_vars

-----------------------------------------------------------------------------
(* Specification of the Archiver: one session that live detection writes and removes,    *)
(* while a recording of the same session name can be replayed; a workspace folder is    *)
(* open, so that summaries are appended                                                 *)

\* most Session Summaries appended
MaxSummaries == 2

\* the Archiver's 30 s timer
RefreshSnapshots ==
  /\ snapshots' = refreshSnapshots(snapshots, teams, now)
  /\ UNCHANGED <<storeVars, recVars, repVars, sessions, historyDir, watchVars, subscriber>>

ArchTasks == {ScenTask, [ScenTask EXCEPT !.status = "completed"]}
ArchEntries == {Entry("w1", TypedText("shutdown_approved"), 1), Entry("w1", PlainText, 1)}
ArchRecordings == {<<r>> : r \in {x \in Recordings : x.dir = DirA}}

InitArchive ==
  /\ teams = << >>
  /\ tasks = << >>
  /\ messages = << >>
  /\ seen = [t \in TeamNames |-> NoneSeen]
  /\ removals = [t \in TeamNames |-> NoRemoval]
  /\ scen = [t \in TeamNames |-> Off]
  /\ recorders = << >>
  /\ completedRecordings = << >>
  /\ debounceTimers = {}
  /\ disk = ReplayDisk
  /\ now = 0
  /\ discarded = {}
  /\ InitReplay
  /\ InitArchiver
  /\ subscriber = NoSubscriber
  /\ historyDir = TRUE
  /\ InitWatcher

NextArchive ==
  \/ \E t \in StoreTeams :
       \/ \E config \in RecDescriptors(t) : UpdateTeam(t, config) /\ SeenTeam(t, config)
       \/ \E task \in ArchTasks : UpdateTask(t, task) /\ SeenTask(t, task)
       \/ \E es \in InboxInputs(t, LEAD, ArchEntries) :
            SetMessages(t, LEAD, es) /\ SeenMessages(t, LEAD, es)
       \/ Len(sessions) < MaxSummaries /\ RemoveTeam(t) /\ SeenRemoval(t)
  \/ RefreshSnapshots /\ UNCHANGED <<histVars, discarded, applied>>
  \/ \E selected \in ArchRecordings :
       StartReplay(selected, 1) /\ UNCHANGED <<histVars, discarded>>
  \/ SleepEnds(DirA) /\ UNCHANGED <<histVars, discarded>>

SpecArchive == InitArchive /\ [][NextArchive]_vars

-----------------------------------------------------------------------------
(* Claims on the Archiver *)

\* C15: no Session Summary is appended for a session whose replay state is playing when
\* its removal notification is handled; the Archiver only discards its snapshot.
C15_NoSummaryUnderReplay ==
  [][\A t \in TeamNames :
       (RemoveTeam(t) /\ isTeamReplaying(t))
         => (sessions' = sessions /\ t \notin DOMAIN snapshots')]_vars

\* C15's case: a session under replay, of which the Archiver held a snapshot, has been
\* removed from the store, and nothing was appended
C15_Witness ==
  \E t \in TeamNames :
    /\ removals[t].snapshot
    /\ removals[t].replaying
    /\ t \notin DOMAIN teams
    /\ t \notin DOMAIN snapshots
    /\ sessions = << >>

\* C16: every session that live detection added to the store and that is removed while not
\* under replay gets exactly one Session Summary appended at its removal, however few
\* updates it received and however soon it is removed.
C16_OneSummaryPerSession ==
  [][\A t \in TeamNames :
       (RemoveTeam(t) /\ t \in DOMAIN teams /\ seen[t].all # {} /\ ~ isTeamReplaying(t))
         => /\ Len(sessions') = Len(sessions) + 1
            /\ SubSeq(sessions', 1, Len(sessions)) = sessions
            /\ sessions'[Len(sessions')].teamName = t]_vars

\* the Session Summary of the items and inboxes the store holds for the session
SummaryOf(t) ==
  buildSessionRecord(t, teams[t], now, getTasks(t), TeamMsgs(t))

\* C17: the Session Summary appended when a session is removed has the task list, the
\* total and completed task counts, the message count and the outcome of the items and
\* inboxes the store held for the session immediately before the removal.
C17_SummaryOfLastKnown ==
  [][\A t \in TeamNames :
       (RemoveTeam(t) /\ t \in DOMAIN teams /\ Len(sessions') > Len(sessions))
         => LET appended == sessions'[Len(sessions')]
            IN /\ appended.tasks = SummaryOf(t).tasks
               /\ appended.stats.totalTasks = SummaryOf(t).stats.totalTasks
               /\ appended.stats.completedTasks = SummaryOf(t).stats.completedTasks
               /\ appended.stats.messageCount = SummaryOf(t).stats.messageCount
               /\ appended.outcome = SummaryOf(t).outcome]_vars

\* stored completed, or in_progress with its owner shutdown-approved
EffectiveCompleted(t, task) ==
  \/ task.status = "completed"
  \/ task.status = "in_progress" /\ ApprovedBy(t, task.subject)

\* C18 (outcome classification): the outcome of a session's summary is no-tasks exactly when
\* the session has no work item; otherwise completed exactly when every item is effective
\* completed, partial exactly when some but not all are, abandoned exactly when none is.
C18_OutcomeClassification ==
  \A t \in DOMAIN teams :
    LET items == getTasks(t)
        done == {i \in DOMAIN items : EffectiveCompleted(t, items[i])}
        outcome == SummaryOf(t).outcome
    IN /\ outcome = "no-tasks" <=> items = << >>
       /\ items # << >> =>
            /\ outcome = "completed" <=> done = DOMAIN items
            /\ outcome = "partial" <=> (done # {} /\ done # DOMAIN items)
            /\ outcome = "abandoned" <=> done = {}

\* timestamps count milliseconds; timestamp.slice(0, 19) is the timestamp to the second
MillisPerSecond == 1000
SecondOf(ts) == ts \div MillisPerSecond

\* the (sender, text, second) groups met in two or more distinct inboxes of the session
detectBroadcasts(mm) ==
  LET group(e) == <<e.from, e.text, SecondOf(e.timestamp)>>
      inboxesOf(g) == {i \in DOMAIN mm : \E k \in DOMAIN mm[i].entries : group(mm[i].entries[k]) = g}
  IN {g \in {group(e) : e \in Range(EntriesOf(mm))} : Cardinality(inboxesOf(g)) >= 2}

\* C19 (broadcast detection): the summary's broadcast count is the number of distinct
\* (sender, text, timestamp-to-the-second) groups that occur in two or more distinct
\* inboxes of the session.
C19_BroadcastCount ==
  \A t \in DOMAIN teams :
    SummaryOf(t).stats.broadcastCount = Cardinality(detectBroadcasts(TeamMsgs(t)))

-----------------------------------------------------------------------------
(* Change Detector: src/watchers/fileWatcher.ts. A session's directory and its descriptor *)
(* carry the same name.                                                                  *)

ConfigPath(t) == <<"teams", t, "config.json">>
InboxPath(t, a) == <<"inboxes", t, a>>
TaskPath(t, id) == <<"tasks", t, id>>

\* state.removeTeam(t) on the machine
RemoveTeamOf(m, t) ==
  Fire([m EXCEPT !.teams = Without(@, t), !.tasks = Without(@, t),
                 !.messages = Without(@, t)],
       "teamRemoved", t)

\* a reader without the try/catch around JSON.parse: it goes on with the content read last
readTeamConfigUncaught(m, f, t) ==
  IF t \notin DOMAIN f.teams \/ f.teams[t].config = << >> THEN m
  ELSE LET config == f.teams[t].config[1]
           ev == IF config.name \in DOMAIN m.teams THEN "teamUpdated" ELSE "teamAdded"
       IN Fire([m EXCEPT !.teams = TeamsWith(@, config.name, config)], ev, config.name)

\* readTeamConfig of teams/<t>/config.json
readTeamConfig(m, f, t) ==
  IF t \notin DOMAIN f.teams \/ f.teams[t].config = << >> THEN m
  ELSE IF ConfigPath(t) \in f.broken THEN m
  ELSE LET config == f.teams[t].config[1]
           ev == IF config.name \in DOMAIN m.teams THEN "teamUpdated" ELSE "teamAdded"
       IN Fire([m EXCEPT !.teams = TeamsWith(@, config.name, config)], ev, config.name)

\* readInbox of teams/<t>/inboxes/<a>.json
readInbox(m, f, t, a) ==
  IF t \notin DOMAIN f.teams \/ ~ HasInbox(f.teams[t].inboxes, a) THEN m
  ELSE IF InboxPath(t, a) \in f.broken THEN m
  ELSE Fire([m EXCEPT !.messages = MessagesWith(@, t, a, InboxOf(f.teams[t].inboxes, a))],
            "messageReceived", t)

\* readTask of tasks/<t>/<id>.json
readTask(m, f, t, id) ==
  IF t \notin DOMAIN f.tasks \/ id \notin DOMAIN f.tasks[t] THEN m
  ELSE IF TaskPath(t, id) \in f.broken THEN m
  ELSE Fire([m EXCEPT !.tasks = TasksWith(@, t, f.tasks[t][id])], "taskUpdated", t)

RECURSIVE ReadInboxes(_, _, _, _)
ReadInboxes(m, f, t, inboxes) ==
  IF inboxes = << >> THEN m
  ELSE Then(readInbox(m, f, t, Head(inboxes).agent),
            LAMBDA m1 : ReadInboxes(m1, f, t, Tail(inboxes)))

\* scanTeamsDir's first loop: each session directory's descriptor, then its inbox files
RECURSIVE ReadTeamDirs(_, _, _)
ReadTeamDirs(m, f, dirs) ==
  IF dirs = << >> THEN m
  ELSE Then(readTeamConfig(m, f, Head(dirs)),
            LAMBDA m1 :
              Then(ReadInboxes(m1, f, Head(dirs), f.teams[Head(dirs)].inboxes),
                   LAMBDA m2 : ReadTeamDirs(m2, f, Tail(dirs))))

\* removeTeam for each of the names
RECURSIVE RemoveTeams(_, _)
RemoveTeams(m, names) ==
  IF names = << >> THEN m
  ELSE Then(RemoveTeamOf(m, Head(names)), LAMBDA m1 : RemoveTeams(m1, Tail(names)))

\* scanTeamsDir: read every session directory, then remove the stored sessions that have
\* no directory
scanTeamsDir(m, f) ==
  Then(ReadTeamDirs(m, f, KeysIn(TeamOrder, f.teams)),
       LAMBDA m1 :
         RemoveTeams(m1, SelectSeq(KeysIn(TeamOrder, m1.teams),
                                   LAMBDA t : t \notin DOMAIN f.teams)))

RECURSIVE ReadTasks(_, _, _, _)
ReadTasks(m, f, t, ids) ==
  IF ids = << >> THEN m
  ELSE Then(readTask(m, f, t, Head(ids)), LAMBDA m1 : ReadTasks(m1, f, t, Tail(ids)))

RECURSIVE ReadTaskDirs(_, _, _)
ReadTaskDirs(m, f, dirs) ==
  IF dirs = << >> THEN m
  ELSE Then(ReadTasks(m, f, Head(dirs), KeysIn(TaskIds, f.tasks[Head(dirs)])),
            LAMBDA m1 : ReadTaskDirs(m1, f, Tail(dirs)))

\* scanTasksDir: upsert every work-item file of every session directory
scanTasksDir(m, f) == ReadTaskDirs(m, f, KeysIn(TeamOrder, f.tasks))

\* a rescan of the sessions directory only
fullScanTeamsOnly(m, f) == IF f.teamsDir THEN scanTeamsDir(m, f) ELSE m

\* fullScan: each directory that exists is scanned
fullScan(m, f) ==
  Then(IF f.teamsDir THEN scanTeamsDir(m, f) ELSE m,
       LAMBDA m1 : IF f.tasksDir THEN scanTasksDir(m1, f) ELSE m1)

\* pollForDirectories: a directory that has appeared is watched and scanned; when the
\* teams directory is gone every stored session is removed
pollForDirectories(m, f) ==
  Then(IF f.teamsDir /\ ~ teamsWatcher THEN scanTeamsDir(m, f) ELSE m,
       LAMBDA m1 :
         Then(IF f.tasksDir /\ ~ tasksWatcher THEN scanTasksDir(m1, f) ELSE m1,
              LAMBDA m2 :
                IF ~ f.teamsDir /\ teamsWatcher
                THEN RemoveTeams(m2, KeysIn(TeamOrder, m2.teams))
                ELSE m2))

\* the poll timer (every POLL_INTERVAL), and start()
PollForDirectories ==
  /\ detector.pollTimer
  /\ CommitMachine(pollForDirectories(Machine, files))
  /\ teamsWatcher' = files.teamsDir
  /\ tasksWatcher' = files.tasksDir
  /\ UNCHANGED <<files, detector>>

\* the scan timer (every FULL_SCAN_INTERVAL)
FullScan ==
  /\ detector.scanTimer
  /\ CommitMachine(fullScan(Machine, files))
  /\ UNCHANGED watchVars

\* handleFileChange, DEBOUNCE_MS after fs.watch reported the path
ConfigChanged(t) ==
  /\ teamsWatcher
  /\ t \in DOMAIN files.teams /\ files.teams[t].config # << >>
  /\ CommitMachine(readTeamConfig(Machine, files, t))
  /\ UNCHANGED watchVars

InboxChanged(t, a) ==
  /\ teamsWatcher
  /\ t \in DOMAIN files.teams /\ HasInbox(files.teams[t].inboxes, a)
  /\ CommitMachine(readInbox(Machine, files, t, a))
  /\ UNCHANGED watchVars

TaskChanged(t, id) ==
  /\ tasksWatcher
  /\ t \in DOMAIN files.tasks /\ id \in DOMAIN files.tasks[t]
  /\ CommitMachine(readTask(Machine, files, t, id))
  /\ UNCHANGED watchVars

\* agentTeams.cleanTeam, confirmed: both directories of the session are deleted and the
\* session is removed from the store
CleanTeam(t) ==
  /\ t \in DOMAIN teams
  /\ CommitMachine(RemoveTeamOf(Machine, t))
  /\ files' = [files EXCEPT !.teams = Without(@, t), !.tasks = Without(@, t),
                            !.broken = {x \in @ : x[2] # t}]
  /\ UNCHANGED <<teamsWatcher, tasksWatcher, detector>>

-----------------------------------------------------------------------------
(* The external writer: the agent tool that owns ~/.claude/teams and ~/.claude/tasks *)

NoTeamDir == [config |-> << >>, inboxes |-> << >>]
TeamDirOf(f, t) == IF t \in DOMAIN f.teams THEN f.teams[t] ELSE NoTeamDir
TaskDirOf(f, t) == IF t \in DOMAIN f.tasks THEN f.tasks[t] ELSE << >>

storeOnly == <<teams, tasks, messages, recVars, repVars, arcVars, applied, subscriber>>

WriteConfig(t, config) ==
  /\ files' = [files EXCEPT !.teamsDir = TRUE,
                            !.teams = (t :> [TeamDirOf(files, t) EXCEPT !.config = <<config>>]) @@ @,
                            !.broken = @ \ {ConfigPath(t)}]
  /\ UNCHANGED <<storeOnly, teamsWatcher, tasksWatcher, detector>>

WriteInbox(t, a, entries) ==
  /\ files' = [files EXCEPT !.teamsDir = TRUE,
                            !.teams = (t :> [TeamDirOf(files, t) EXCEPT
                                               !.inboxes = InboxSet(@, a, entries)]) @@ @,
                            !.broken = @ \ {InboxPath(t, a)}]
  /\ UNCHANGED <<storeOnly, teamsWatcher, tasksWatcher, detector>>

WriteTask(t, task) ==
  /\ files' = [files EXCEPT !.tasksDir = TRUE,
                            !.tasks = (t :> ((task.id :> task) @@ TaskDirOf(files, t))) @@ @,
                            !.broken = @ \ {TaskPath(t, task.id)}]
  /\ UNCHANGED <<storeOnly, teamsWatcher, tasksWatcher, detector>>

DeleteInbox(t, a) ==
  /\ t \in DOMAIN files.teams /\ HasInbox(files.teams[t].inboxes, a)
  /\ files' = [files EXCEPT !.teams[t].inboxes = SelectSeq(@, LAMBDA x : x.agent # a),
                            !.broken = @ \ {InboxPath(t, a)}]
  /\ UNCHANGED <<storeOnly, teamsWatcher, tasksWatcher, detector>>

DeleteTask(t, id) ==
  /\ t \in DOMAIN files.tasks /\ id \in DOMAIN files.tasks[t]
  /\ files' = [files EXCEPT !.tasks[t] = Without(@, id), !.broken = @ \ {TaskPath(t, id)}]
  /\ UNCHANGED <<storeOnly, teamsWatcher, tasksWatcher, detector>>

\* the files of the session that exist
PathsOf(f, t) ==
  {ConfigPath(t) : x \in {y \in {t} : y \in DOMAIN f.teams /\ f.teams[y].config # << >>}}
  \cup {InboxPath(t, TeamDirOf(f, t).inboxes[i].agent) : i \in DOMAIN TeamDirOf(f, t).inboxes}
  \cup {TaskPath(t, id) : id \in DOMAIN TaskDirOf(f, t)}

\* a file is being rewritten and holds half of its new content
PartialWrite(path) ==
  /\ path \notin files.broken
  /\ files' = [files EXCEPT !.broken = @ \cup {path}]
  /\ UNCHANGED <<storeOnly, teamsWatcher, tasksWatcher, detector>>

\* the session's directories are deleted (the tool's clean-up at the end of a session)
DeleteTeamDirs(t) ==
  /\ t \in DOMAIN files.teams \/ t \in DOMAIN files.tasks
  /\ files' = [files EXCEPT !.teams = Without(@, t), !.tasks = Without(@, t),
                            !.broken = {x \in @ : x[2] # t}]
  /\ UNCHANGED <<storeOnly, teamsWatcher, tasksWatcher, detector>>

\* ~/.claude/teams and ~/.claude/tasks are deleted
DeleteWatchedDirs ==
  /\ files.teamsDir \/ files.tasksDir
  /\ files' = NoFiles
  /\ UNCHANGED <<storeOnly, teamsWatcher, tasksWatcher, detector>>

-----------------------------------------------------------------------------
(* Specification of the Change Detector: one live session written and deleted on disk,   *)
(* and a replay of a recording of the same session name                                  *)

WatchTeams == {"t1"}
WatchTasks == {ScenTask, [ScenTask EXCEPT !.status = "completed"], [ScenTask EXCEPT !.id = "2"]}
WatchEntries == {<<Entry("w1", PlainText, 1)>>, LeadInbox[1].entries}
WatchRecordings == {<<r>> : r \in {x \in Recordings : x.dir = DirA}}

InitWatch == InitReplaying

NextWatch ==
  \/ \E t \in WatchTeams : \E config \in RecDescriptors(t) :
       WriteConfig(t, config) /\ UNCHANGED <<histVars, discarded>>
  \/ \E t \in WatchTeams : \E entries \in WatchEntries :
       WriteInbox(t, LEAD, entries) /\ UNCHANGED <<histVars, discarded>>
  \/ \E t \in WatchTeams : \E task \in WatchTasks :
       WriteTask(t, task) /\ UNCHANGED <<histVars, discarded>>
  \/ \E t \in WatchTeams : DeleteInbox(t, LEAD) /\ UNCHANGED <<histVars, discarded>>
  \/ \E t \in WatchTeams : \E i \in DOMAIN TaskIds :
       DeleteTask(t, TaskIds[i]) /\ UNCHANGED <<histVars, discarded>>
  \/ \E t \in WatchTeams : DeleteTeamDirs(t) /\ UNCHANGED <<histVars, discarded>>
  \/ DeleteWatchedDirs /\ UNCHANGED <<histVars, discarded>>
  \/ PollForDirectories /\ UNCHANGED <<histVars, discarded>>
  \/ FullScan /\ UNCHANGED <<histVars, discarded>>
  \/ \E t \in WatchTeams : ConfigChanged(t) /\ UNCHANGED <<histVars, discarded>>
  \/ \E t \in WatchTeams : InboxChanged(t, LEAD) /\ UNCHANGED <<histVars, discarded>>
  \/ \E t \in WatchTeams : \E i \in DOMAIN TaskIds :
       TaskChanged(t, TaskIds[i]) /\ UNCHANGED <<histVars, discarded>>
  \/ \E t \in WatchTeams : CleanTeam(t) /\ UNCHANGED <<histVars, discarded>>
  \/ \E selected \in WatchRecordings :
       StartReplay(selected, 1) /\ UNCHANGED <<histVars, discarded>>
  \/ SleepEnds(DirA) /\ UNCHANGED <<histVars, discarded>>

SpecWatch == InitWatch /\ [][NextWatch]_vars

-----------------------------------------------------------------------------
(* Claims on the Change Detector *)

\* a step of the Change Detector: a poll, a full rescan, or the read of a changed file
ChangeDetectorStep ==
  \/ PollForDirectories
  \/ FullScan
  \/ \E t \in WatchTeams : ConfigChanged(t)
  \/ \E t \in WatchTeams : InboxChanged(t, LEAD)
  \/ \E t \in WatchTeams : \E i \in DOMAIN TaskIds : TaskChanged(t, TaskIds[i])

\* C12: while a session's replay state is `playing`, no step of the Change Detector changes
\* what the State Store holds under that session name: the descriptor is neither upserted
\* nor removed, no inbox is replaced, no work item is upserted.
C12_NoLiveMutationUnderReplay ==
  [][\A t \in TeamNames :
       (isTeamReplaying(t) /\ ChangeDetectorStep)
         => /\ (t \in DOMAIN teams') = (t \in DOMAIN teams)
            /\ t \in DOMAIN teams => teams'[t] = teams[t]
            /\ (t \in DOMAIN tasks') = (t \in DOMAIN tasks)
            /\ t \in DOMAIN tasks => tasks'[t] = tasks[t]
            /\ (t \in DOMAIN messages') = (t \in DOMAIN messages)
            /\ t \in DOMAIN messages => messages'[t] = messages[t]]_vars

\* a store that holds nothing
EmptyStore == [Machine EXCEPT !.teams = << >>, !.tasks = << >>, !.messages = << >>]

\* the model obtained by reading all files now on disk into an empty store
ReadFromScratch == fullScan(EmptyStore, files)

\* the store holds the sessions, descriptors, work items and inboxes of the model m; the
\* order of participants, of work items and of inboxes is not compared, and a session
\* without work items or an inbox without messages is the same as none
SameModel(tm, tk, mm, m) ==
  /\ DOMAIN tm = DOMAIN m.teams
  /\ \A t \in DOMAIN tm :
       /\ tm[t].name = m.teams[t].name
       /\ Range(tm[t].members) = Range(m.teams[t].members)
  /\ \A t \in TeamNames :
       Range(IF t \in DOMAIN tk THEN tk[t] ELSE << >>)
         = Range(IF t \in DOMAIN m.tasks THEN m.tasks[t] ELSE << >>)
  /\ \A t \in TeamNames : \A a \in Agents :
       InboxOf(IF t \in DOMAIN mm THEN mm[t] ELSE << >>, a)
         = InboxOf(IF t \in DOMAIN m.messages THEN m.messages[t] ELSE << >>, a)

\* C13 (convergence): when only the Change Detector has written to the store, the
\* descriptor, inboxes and work items the store holds for every session immediately after
\* a full rescan are those of reading all files currently on disk into an empty store.
C13_Convergence ==
  [][(FullScan /\ replayState = << >> /\ activeReplays = << >>)
       => SameModel(teams', tasks', messages', ReadFromScratch)]_vars

-----------------------------------------------------------------------------
(* Specification of a record-and-replay round trip: one live session whose descriptor,  *)
(* work items and leader inbox change while it is recorded                              *)

RoundTasks == {ScenTask, [ScenTask EXCEPT !.status = "completed"], [ScenTask EXCEPT !.id = "2"]}

NextRound ==
  \/ \E t \in RecTeams :
       \/ \E config \in RecDescriptors(t) :
            UpdateTeam(t, config) /\ UNCHANGED <<histVars, discarded, applied>>
       \/ \E task \in RoundTasks :
            UpdateTask(t, task) /\ UNCHANGED <<histVars, discarded, applied>>
       \/ SetMessages(t, LEAD, LeadInbox[1].entries)
            /\ UNCHANGED <<histVars, discarded, applied>>
       \/ TeamAppeared(t) /\ UNCHANGED <<histVars, discarded, applied>>
       \/ TimerFires(t) /\ UNCHANGED <<histVars, discarded, applied>>
       \/ TeamDisappeared(t) /\ UNCHANGED <<histVars, discarded, applied>>
  \/ Tick /\ UNCHANGED <<histVars, discarded, applied>>

SpecRound == InitLife /\ [][NextRound]_vars

\* the machine after the frames stored in the directory are replayed at speed 0 into an
\* empty store
ReplayedInstantly(dir, dsk) ==
  playLoaded(EmptyStore, [dir |-> dir, manifest |-> dsk[dir].manifest],
             FramesOf(dsk[dir].frames), 0)

\* C14 (replay determinism): when the recording of a live session ends, replaying the
\* frames it stored at speed 0 into an empty store ends with the session's descriptor,
\* work-item list and inboxes equal to those the live store holds at that moment.
C14_ReplayDeterminism ==
  [][\A t \in RecTeams :
       (TeamDisappeared(t) /\ t \in DOMAIN teams)
         => \E m \in {ReplayedInstantly(recorders[t].outputDir, disk')} :
              /\ t \in DOMAIN m.teams /\ m.teams[t] = teams[t]
              /\ (IF t \in DOMAIN m.tasks THEN m.tasks[t] ELSE << >>) = getTasks(t)
              /\ (IF t \in DOMAIN m.messages THEN m.messages[t] ELSE << >>) = TeamMsgs(t)]_vars

-----------------------------------------------------------------------------
(* Claims on live sessions and replay requests *)

\* the session was ingested by the Change Detector: it is in the store and no replay has
\* written a replay state for it
IsLive(t) == t \in DOMAIN teams /\ t \notin DOMAIN replayState

\* C21: a replay request for a recording that covers the name of a live session in the
\* store is refused: no replay is started and the store is not mutated.
C21_RefusedOverLiveSession ==
  [][\A selected \in WatchRecordings :
       (/\ StartReplay(selected, 1)
        /\ \E i \in DOMAIN selected :
             \E t \in Range(extractTeamNames(selected[i], loadFrames(selected[i].dir))) :
               IsLive(t))
         => UNCHANGED <<storeVars, repVars>>]_vars

-----------------------------------------------------------------------------
(* Specification of the State Store's notifications: one session written through the    *)
(* four mutations, with a listener registered on onDidChange                            *)

InitNotify ==
  /\ teams = << >>
  /\ tasks = << >>
  /\ messages = << >>
  /\ seen = [t \in TeamNames |-> NoneSeen]
  /\ removals = [t \in TeamNames |-> NoRemoval]
  /\ scen = [t \in TeamNames |-> Off]
  /\ InitRecorder
  /\ InitReplay
  /\ InitArchiver
  /\ historyDir = FALSE
  /\ InitWatcher
  /\ subscriber = [registered |-> TRUE, received |-> << >>]

NextNotify ==
  \E t \in StoreTeams :
    \/ \E config \in RecDescriptors(t) :
         UpdateTeam(t, config) /\ UNCHANGED <<histVars, discarded, applied>>
    \/ \E task \in RoundTasks : UpdateTask(t, task) /\ UNCHANGED <<histVars, discarded, applied>>
    \/ \E a \in StoreInboxes : \E es \in WatchEntries :
         SetMessages(t, a, es) /\ UNCHANGED <<histVars, discarded, applied>>
    \/ RemoveTeam(t) /\ UNCHANGED <<histVars, discarded, applied>>

SpecNotify == InitNotify /\ [][NextNotify]_vars

\* C22: each call of updateTeam, updateTask, setMessages and removeTeam delivers exactly
\* one notification, of the matching type (teamAdded for the first upsert of a name,
\* teamUpdated for a later one), for that session, and the store already reflects the
\* mutation when it is delivered; the Archiver's listener, too, has taken the updated
\* descriptor by the time updateTeam returns.
C22_OneSynchronousNotification ==
  [][\A t \in StoreTeams :
       LET one(type) == subscriber'.received
                          = <<Notification(type, t, teams', tasks', messages')>>
       IN /\ (\E config \in RecDescriptors(t) : UpdateTeam(t, config))
               => /\ one(IF t \in DOMAIN teams THEN "teamUpdated" ELSE "teamAdded")
                  /\ t \in DOMAIN teams => snapshots'[t].config = teams'[t]
          /\ (\E task \in RoundTasks : UpdateTask(t, task)) => one("taskUpdated")
          /\ (\E a \in StoreInboxes : \E es \in WatchEntries : SetMessages(t, a, es))
               => one("messageReceived")
          /\ RemoveTeam(t)
               => /\ one("teamRemoved")
                  /\ t \notin DOMAIN teams' \cup DOMAIN tasks' \cup DOMAIN messages']_vars

\* a later upsert has been notified as teamUpdated, with the merged descriptor in the store
C22_Witness ==
  /\ Len(subscriber.received) = 1
  /\ subscriber.received[1].type = "teamUpdated"
  /\ "t1" \in DOMAIN teams
  /\ subscriber.received[1].team = <<teams["t1"]>>
  /\ Len(teams["t1"].members) = 2
  /\ tasks # << >> /\ messages # << >>

-----------------------------------------------------------------------------
(* Specification of the readers: one session's files written, half rewritten and read   *)
(* while both directories are watched                                                   *)

\* start() has found both directories, empty; a listener is registered on onDidChange
InitRead ==
  /\ teams = << >>
  /\ tasks = << >>
  /\ messages = << >>
  /\ seen = [t \in TeamNames |-> NoneSeen]
  /\ removals = [t \in TeamNames |-> NoRemoval]
  /\ scen = [t \in TeamNames |-> Off]
  /\ InitRecorder
  /\ InitReplay
  /\ InitArchiver
  /\ historyDir = FALSE
  /\ files = [NoFiles EXCEPT !.teamsDir = TRUE, !.tasksDir = TRUE]
  /\ teamsWatcher = TRUE
  /\ tasksWatcher = TRUE
  /\ detector = Started
  /\ subscriber = [registered |-> TRUE, received |-> << >>]

NextRead ==
  \/ \E t \in WatchTeams : \E config \in RecDescriptors(t) :
       WriteConfig(t, config) /\ UNCHANGED <<histVars, discarded>>
  \/ \E t \in WatchTeams : \E entries \in WatchEntries :
       WriteInbox(t, LEAD, entries) /\ UNCHANGED <<histVars, discarded>>
  \/ \E t \in WatchTeams : \E task \in ArchTasks :
       WriteTask(t, task) /\ UNCHANGED <<histVars, discarded>>
  \/ \E t \in WatchTeams : \E path \in PathsOf(files, t) :
       PartialWrite(path) /\ UNCHANGED <<histVars, discarded>>
  \/ \E t \in WatchTeams : ConfigChanged(t) /\ UNCHANGED <<histVars, discarded>>
  \/ \E t \in WatchTeams : InboxChanged(t, LEAD) /\ UNCHANGED <<histVars, discarded>>
  \/ \E t \in WatchTeams : \E i \in DOMAIN TaskIds :
       TaskChanged(t, TaskIds[i]) /\ UNCHANGED <<histVars, discarded>>
  \/ FullScan /\ UNCHANGED <<histVars, discarded>>

SpecRead == InitRead /\ [][NextRead]_vars

\* C23: the read of a file that does not parse leaves the store as it was and delivers no
\* notification: the debounced read of such a file changes nothing at all, and a full
\* rescan leaves the value stored for that file untouched. The handler completes in
\* either case.
C23_BrokenFileSkipped ==
  [][\A t \in WatchTeams :
       /\ (ConfigChanged(t) /\ ConfigPath(t) \in files.broken)
            => UNCHANGED storeVars /\ subscriber'.received = << >>
       /\ (InboxChanged(t, LEAD) /\ InboxPath(t, LEAD) \in files.broken)
            => UNCHANGED storeVars /\ subscriber'.received = << >>
       /\ \A i \in DOMAIN TaskIds :
            (TaskChanged(t, TaskIds[i]) /\ TaskPath(t, TaskIds[i]) \in files.broken)
              => UNCHANGED storeVars /\ subscriber'.received = << >>
       /\ (FullScan /\ ConfigPath(t) \in files.broken)
            => /\ (t \in DOMAIN teams') = (t \in DOMAIN teams)
               /\ t \in DOMAIN teams => teams'[t] = teams[t]
               /\ \A k \in DOMAIN subscriber'.received :
                    subscriber'.received[k].type \notin {"teamAdded", "teamUpdated"}
       /\ (FullScan /\ InboxPath(t, LEAD) \in files.broken)
            => /\ getMessages(t, LEAD)' = getMessages(t, LEAD)
               /\ \A k \in DOMAIN subscriber'.received :
                    subscriber'.received[k].type # "messageReceived"
       /\ \A i \in DOMAIN TaskIds :
            (FullScan /\ TaskPath(t, TaskIds[i]) \in files.broken)
              => {x \in Range(getTasks(t)') : x.id = TaskIds[i]}
                   = {x \in Range(getTasks(t)) : x.id = TaskIds[i]}]_vars

\* the descriptor file of a stored session is half rewritten, its inbox file is whole, and
\* the handler that ran last delivered nothing: it was the read of the descriptor file
C23_Witness ==
  /\ files.broken = {ConfigPath("t1")}
  /\ "t1" \in DOMAIN teams
  /\ HasInbox(TeamDirOf(files, "t1").inboxes, LEAD)
  /\ subscriber.received = << >>

-----------------------------------------------------------------------------
(* Specification of the rescan backstop: the readers' specification, with the scan      *)
(* timer firing again and again (setInterval(fullScan, FULL_SCAN_INTERVAL)); no read of *)
(* a changed file is ever forced, so any change notification may be dropped             *)

BackstopEntries == {LeadInbox[1].entries}
BackstopTasks == {ScenTask}

NextBackstop ==
  \/ \E t \in WatchTeams : \E config \in RecDescriptors(t) :
       WriteConfig(t, config) /\ UNCHANGED <<histVars, discarded>>
  \/ \E t \in WatchTeams : \E entries \in BackstopEntries :
       WriteInbox(t, LEAD, entries) /\ UNCHANGED <<histVars, discarded>>
  \/ \E t \in WatchTeams : \E task \in BackstopTasks :
       WriteTask(t, task) /\ UNCHANGED <<histVars, discarded>>
  \/ \E t \in WatchTeams : \E path \in PathsOf(files, t) :
       PartialWrite(path) /\ UNCHANGED <<histVars, discarded>>
  \/ \E t \in WatchTeams : ConfigChanged(t) /\ UNCHANGED <<histVars, discarded>>
  \/ \E t \in WatchTeams : InboxChanged(t, LEAD) /\ UNCHANGED <<histVars, discarded>>
  \/ \E t \in WatchTeams : \E i \in DOMAIN TaskIds :
       TaskChanged(t, TaskIds[i]) /\ UNCHANGED <<histVars, discarded>>
  \/ FullScan /\ UNCHANGED <<histVars, discarded>>

SpecBackstop ==
  /\ InitRead
  /\ [][NextBackstop]_vars
  /\ WF_vars(FullScan /\ UNCHANGED <<histVars, discarded>>)

\* the file is present, whole, and holds this content
ConfigHolds(t, config) ==
  /\ t \in DOMAIN files.teams /\ files.teams[t].config = <<config>>
  /\ ConfigPath(t) \notin files.broken

InboxHolds(t, a, entries) ==
  /\ t \in DOMAIN files.teams /\ HasInbox(files.teams[t].inboxes, a)
  /\ InboxOf(files.teams[t].inboxes, a) = entries
  /\ InboxPath(t, a) \notin files.broken

TaskHolds(t, task) ==
  /\ t \in DOMAIN files.tasks /\ task.id \in DOMAIN files.tasks[t]
  /\ files.tasks[t][task.id] = task
  /\ TaskPath(t, task.id) \notin files.broken

\* the store reflects the content: the descriptor's participants are stored as written,
\* the inbox is the file's list, the work item is stored under its id
ConfigReflected(t, config) ==
  /\ t \in DOMAIN teams /\ teams[t].name = config.name
  /\ Range(config.members) \subseteq Range(teams[t].members)

InboxReflected(t, a, entries) == HasInbox(TeamMsgs(t), a) /\ getMessages(t, a) = entries

TaskReflected(t, task) == {x \in Range(getTasks(t)) : x.id = task.id} = {task}

\* every whole file on disk is reflected
AllReflected ==
  \A t \in WatchTeams :
    /\ \A config \in RecDescriptors(t) : ConfigHolds(t, config) => ConfigReflected(t, config)
    /\ \A entries \in BackstopEntries :
         InboxHolds(t, LEAD, entries) => InboxReflected(t, LEAD, entries)
    /\ \A task \in BackstopTasks : TaskHolds(t, task) => TaskReflected(t, task)

\* C24 (rescan backstop): right after a full rescan the store reflects every file that is
\* present and whole, whether or not its change was ever read; and with the scan timer
\* firing, a file that stays present and whole is eventually reflected by the store.
C24_RescanBackstop ==
  /\ [][FullScan => AllReflected']_vars
  /\ \A t \in WatchTeams :
       /\ \A config \in RecDescriptors(t) :
            ConfigHolds(t, config)
              ~> (ConfigReflected(t, config) \/ ~ ConfigHolds(t, config))
       /\ \A entries \in BackstopEntries :
            InboxHolds(t, LEAD, entries)
              ~> (InboxReflected(t, LEAD, entries) \/ ~ InboxHolds(t, LEAD, entries))
       /\ \A task \in BackstopTasks :
            TaskHolds(t, task) ~> (TaskReflected(t, task) \/ ~ TaskHolds(t, task))

\* a rescan has just read several files (the listener received more than one notification
\* from one handler) and the store reflects the descriptor, the inbox and the work item
C24_Witness ==
  /\ Len(subscriber.received) >= 3
  /\ ConfigHolds("t1", [name |-> "t1", members |-> ScenConfig2])
  /\ InboxHolds("t1", LEAD, LeadInbox[1].entries)
  /\ TaskHolds("t1", ScenTask)
  /\ AllReflected

-----------------------------------------------------------------------------
(* Specification of disappearing directories: sessions are written and deleted, the     *)
(* watch subscriptions may report an error, and the poll and scan timers keep firing    *)
(* (setInterval in start())                                                             *)

\* watcher.on('error'): the subscription of that root is forgotten, not closed
WatcherError(type) ==
  /\ IF type = "teams" THEN teamsWatcher ELSE tasksWatcher
  /\ teamsWatcher' = IF type = "teams" THEN FALSE ELSE teamsWatcher
  /\ tasksWatcher' = IF type = "tasks" THEN FALSE ELSE tasksWatcher
  /\ UNCHANGED <<storeOnly, files, detector>>

NextVanish ==
  \/ \E t \in WatchTeams : \E config \in RecDescriptors(t) :
       WriteConfig(t, config) /\ UNCHANGED <<histVars, discarded>>
  \/ \E t \in WatchTeams : \E task \in BackstopTasks :
       WriteTask(t, task) /\ UNCHANGED <<histVars, discarded>>
  \/ \E t \in WatchTeams : DeleteTeamDirs(t) /\ UNCHANGED <<histVars, discarded>>
  \/ DeleteWatchedDirs /\ UNCHANGED <<histVars, discarded>>
  \/ \E type \in {"teams", "tasks"} : WatcherError(type) /\ UNCHANGED <<histVars, discarded>>
  \/ PollForDirectories /\ UNCHANGED <<histVars, discarded>>
  \/ FullScan /\ UNCHANGED <<histVars, discarded>>

SpecVanish ==
  /\ InitRead
  /\ [][NextVanish]_vars
  /\ WF_vars(PollForDirectories /\ UNCHANGED <<histVars, discarded>>)
  /\ WF_vars(FullScan /\ UNCHANGED <<histVars, discarded>>)

\* the session is stored, and its descriptor directory or the sessions root is gone
Vanished(t) == t \in DOMAIN teams /\ (~ files.teamsDir \/ t \notin DOMAIN files.teams)

\* C25 (disappearance): with the poll and the rescan firing, a stored session whose
\* descriptor directory (or the whole sessions root) is gone from disk is eventually
\* removed from the store, unless its directory comes back, in every state of the watch
\* subscriptions.
C25_Disappearance ==
  \A t \in WatchTeams : Vanished(t) ~> (t \notin DOMAIN teams \/ ~ Vanished(t))

-----------------------------------------------------------------------------
(* Claims on the end of a recording *)

\* the directories of the recordings in progress
ActiveDirs == {recorders[t].outputDir : t \in DOMAIN recorders}

\* what one stopRecording(t) step does to the recording of t
Stopped(t) ==
  LET dir == recorders[t].outputDir
  IN /\ t \notin debounceTimers'
     /\ t \notin DOMAIN recorders'
     /\ t \in DOMAIN completedRecordings' /\ completedRecordings'[t] = dir
     /\ Cardinality(DOMAIN disk'[dir].frames) - Cardinality(DOMAIN disk[dir].frames)
          \in {0, 1}
     /\ disk'[dir].manifest # << >>
     /\ disk'[dir].manifest[1].frameCount = Cardinality(DOMAIN disk'[dir].frames)
     /\ disk'[dir].manifest[1].endedAt = now

-----------------------------------------------------------------------------
(* Specification of failing writes: the recorder's specification, where fs.writeFileSync *)
(* of a frame may throw (disk full, directory removed)                                  *)

\* captureFrameImmediate up to a frame write that throws: lastHash and frameCount are
\* already set, nothing is on disk, and the rest of the caller is skipped
captureFrameImmediateThrows(t) ==
  [recorders[t] EXCEPT !.lastHash = <<hashFrame(buildFrameFromState(t))>>,
                       !.frameCount = @ + 1]

\* a frame differs from the last one stored, so that a write is attempted
WriteAttempted(t) == recorders[t].lastHash # <<hashFrame(buildFrameFromState(t))>>

\* the debounce timer fires and the frame write throws inside the timer callback
TimerFiresWriteFails(t) ==
  /\ t \in debounceTimers
  /\ t \in DOMAIN recorders
  /\ recorders[t].frameCount < MaxFrames
  /\ WriteAttempted(t)
  /\ recorders' = [recorders EXCEPT ![t] = captureFrameImmediateThrows(t)]
  /\ debounceTimers' = debounceTimers \ {t}
  /\ UNCHANGED <<storeVars, completedRecordings, disk, now, repVars, arcVars, watchVars,
                  subscriber>>

\* watcher.onTeamDisappeared -> stopRecording, whose final capture throws: the timer is
\* already cleared; the manifest, completedRecordings.set and recorders.delete are skipped
TeamDisappearedWriteFails(t) ==
  /\ t \in DOMAIN recorders
  /\ recorders[t].frameCount < MaxFrames
  /\ WriteAttempted(t)
  /\ debounceTimers' = debounceTimers \ {t}
  /\ recorders' = [recorders EXCEPT ![t] = captureFrameImmediateThrows(t)]
  /\ UNCHANGED <<storeVars, completedRecordings, disk, now, repVars, arcVars, watchVars,
                  subscriber>>

NextFail ==
  \/ \E t \in RecTeams :
       \/ \E config \in RecDescriptors(t) :
            UpdateTeam(t, config) /\ UNCHANGED <<histVars, discarded, applied>>
       \/ UpdateTask(t, ScenTask) /\ UNCHANGED <<histVars, discarded, applied>>
       \/ RemoveTeam(t) /\ UNCHANGED <<histVars, discarded, applied>>
       \/ TeamAppeared(t) /\ UNCHANGED <<histVars, discarded, applied>>
       \/ TimerFires(t) /\ UNCHANGED <<histVars, discarded, applied>>
       \/ TimerFiresWriteFails(t) /\ UNCHANGED <<histVars, discarded, applied>>
       \/ TeamDisappeared(t) /\ UNCHANGED <<histVars, discarded, applied>>
       \/ TeamDisappearedWriteFails(t) /\ UNCHANGED <<histVars, discarded, applied>>
  \/ Tick /\ UNCHANGED <<histVars, discarded, applied>>

SpecFail == InitLife /\ [][NextFail]_vars

\* C27 (write failures are contained): a stop whose frame write fails still runs to its
\* end, so the recording is ended (no recorder entry is left for the session) and the
\* directory is known as the session's completed recording.
C27_WriteFailureContained ==
  [][\A t \in RecTeams :
       TeamDisappearedWriteFails(t) =>
         /\ t \notin DOMAIN recorders'
         /\ t \in DOMAIN completedRecordings']_vars

-----------------------------------------------------------------------------
(* Specification of the detector's shutdown: change events schedule debounced reads,    *)
(* the timers fire, files are written, and dispose() may be called at any moment         *)

\* setTimeout: a handle for the path that no scheduled timeout has
MaxHandles == 2
NewHandle(scheduled, path) ==
  LET free == {n \in 1..MaxHandles : [path |-> path, n |-> n] \notin scheduled}
  IN [path |-> path,
      n |-> IF free = {} THEN MaxHandles ELSE CHOOSE n \in free : \A k \in free : n <= k]

\* a debounce that schedules the new read without clearing the one that is pending
debouncedHandleChangeNoClear(d, path) ==
  LET handle == NewHandle(d.timeouts, path)
  IN [d EXCEPT !.timeouts = @ \cup {handle},
               !.debounceTimers = {e \in @ : e.path # path} \cup {handle}]

\* fs.watch callback -> debouncedHandleChange: clearTimeout of the handle the map has for
\* the path, setTimeout of the read, and the map's handle for the path replaced
debouncedHandleChange(d, path) ==
  LET existing == {e \in d.debounceTimers : e.path = path}
      handle == NewHandle(d.timeouts \ existing, path)
  IN [d EXCEPT !.timeouts = (@ \ existing) \cup {handle},
               !.debounceTimers = (@ \ existing) \cup {handle}]

\* handleFileChange: the reader is chosen by the path
handleFileChange(m, f, path) ==
  IF path[1] = "teams" THEN readTeamConfig(m, f, path[2])
  ELSE IF path[1] = "inboxes" THEN readInbox(m, f, path[2], path[3])
  ELSE readTask(m, f, path[2], path[3])

\* a dispose that leaves the pending debounced reads alone
disposeKeepsReads(d) == [d EXCEPT !.pollTimer = FALSE, !.scanTimer = FALSE, !.closed = TRUE]

\* dispose: both intervals cleared, both watchers closed, every pending read cleared
dispose(d) ==
  [pollTimer |-> FALSE, scanTimer |-> FALSE, debounceTimers |-> {},
   timeouts |-> d.timeouts \ d.debounceTimers, closed |-> TRUE]

\* an open watch subscription reports a change of a file
ChangeReported(path) ==
  /\ ~ detector.closed
  /\ IF path[1] = "tasks" THEN tasksWatcher ELSE teamsWatcher
  /\ detector' = debouncedHandleChange(detector, path)
  /\ UNCHANGED <<storeOnly, files, teamsWatcher, tasksWatcher>>

\* a scheduled timeout fires: the map's entry of its path is deleted and the path is read
DebounceFires(handle) ==
  /\ handle \in detector.timeouts
  /\ CommitMachine(handleFileChange(Machine, files, handle.path))
  /\ detector' = [detector EXCEPT !.timeouts = @ \ {handle},
                                  !.debounceTimers = {e \in @ : e.path # handle.path}]
  /\ UNCHANGED <<files, teamsWatcher, tasksWatcher>>

Dispose ==
  /\ ~ detector.closed
  /\ detector' = dispose(detector)
  /\ UNCHANGED <<storeOnly, files, teamsWatcher, tasksWatcher>>

NextDispose ==
  \/ \E t \in WatchTeams : \E config \in RecDescriptors(t) :
       WriteConfig(t, config) /\ UNCHANGED <<histVars, discarded>>
  \/ \E t \in WatchTeams : \E entries \in BackstopEntries :
       WriteInbox(t, LEAD, entries) /\ UNCHANGED <<histVars, discarded>>
  \/ \E t \in WatchTeams : \E task \in BackstopTasks :
       WriteTask(t, task) /\ UNCHANGED <<histVars, discarded>>
  \/ \E t \in WatchTeams : \E path \in PathsOf(files, t) :
       ChangeReported(path) /\ UNCHANGED <<histVars, discarded>>
  \/ \E handle \in detector.timeouts :
       DebounceFires(handle) /\ UNCHANGED <<histVars, discarded>>
  \/ PollForDirectories /\ UNCHANGED <<histVars, discarded>>
  \/ FullScan /\ UNCHANGED <<histVars, discarded>>
  \/ Dispose /\ UNCHANGED <<histVars, discarded>>

SpecDispose == InitRead /\ [][NextDispose]_vars

\* C28 (detector shutdown): once dispose() has run, no timer of the detector is left (poll,
\* rescan, debounced reads) and no step changes the store or notifies its listener.
C28_QuietAfterDispose ==
  [][detector.closed =>
       /\ ~ detector.pollTimer /\ ~ detector.scanTimer
       /\ detector.debounceTimers = {} /\ detector.timeouts = {}
       /\ <<teams, tasks, messages, subscriber>>' = <<teams, tasks, messages, subscriber>>
       /\ detector' = detector]_vars

\* disposed, and a descriptor written since then is on disk, whole, with a participant the
\* store does not have
C28_Witness ==
  /\ detector.closed
  /\ teams # << >>
  /\ \E t \in WatchTeams : \E config \in RecDescriptors(t) :
       ConfigHolds(t, config) /\ ~ ConfigReflected(t, config)

-----------------------------------------------------------------------------
(* Claims on replay and the watched directories *)

\* a step of the replay engine: a replay is started, or its next frames are applied
ReplayStep ==
  \/ \E selected \in WatchRecordings : StartReplay(selected, 1)
  \/ SleepEnds(DirA)

-----------------------------------------------------------------------------
(* The views' work-item display: src/views/taskTreeProvider.ts and                      *)
(* src/views/dashboardPanel.ts                                                           *)

\* STATUS_ICONS[status] ?? STATUS_ICONS.pending
STATUS_ICONS(status) ==
  IF status = "completed" THEN "check"
  ELSE IF status = "in_progress" THEN "sync~spin"
  ELSE "circle-outline"

\* a tree item shown blocked whenever the item has blockers, whatever its status
getTaskItemByBlockersOnly(t, task) ==
  LET blocked == Len(task.blockedBy) > 0
  IN [blockedNote |-> blocked,
      icon |-> IF blocked THEN "lock" ELSE STATUS_ICONS(getEffectiveTaskStatus(t, task))]

\* TaskTreeProvider.getTaskItem: the "blocked by" note of the description and the icon
getTaskItem(t, task) ==
  LET blocked == Len(task.blockedBy) > 0 /\ task.status = "pending"
  IN [blockedNote |-> blocked,
      icon |-> IF blocked THEN "lock" ELSE STATUS_ICONS(getEffectiveTaskStatus(t, task))]

\* DashboardPanel.getDataPayload, per work item: the status class and the badge
getDataPayload(t, task) ==
  LET effectiveStatus == getEffectiveTaskStatus(t, task)
      blocked == Len(task.blockedBy) > 0 /\ task.status = "pending"
  IN [statusClass |-> IF blocked THEN "blocked" ELSE effectiveStatus,
      badgeLabel |-> IF blocked THEN "blocked"
                     ELSE IF effectiveStatus = "in_progress" THEN "active"
                     ELSE IF effectiveStatus = "completed" THEN "done"
                     ELSE "pending"]

BlockTasks == [id : {"1", "2"}, subject : {"w1"}, status : Statuses, blockedBy : {<<>>, <<"1">>}]

NextBlocked ==
  \E t \in StoreTeams :
    \/ \E config \in RecDescriptors(t) :
         UpdateTeam(t, config) /\ UNCHANGED <<histVars, discarded, applied>>
    \/ \E task \in BlockTasks : UpdateTask(t, task) /\ UNCHANGED <<histVars, discarded, applied>>
    \/ SetMessages(t, LEAD, LeadInbox[1].entries) /\ UNCHANGED <<histVars, discarded, applied>>

SpecBlocked == InitLife /\ [][NextBlocked]_vars

ShownBlocked(t, task) ==
  /\ getTaskItem(t, task).icon = "lock"
  /\ getTaskItem(t, task).blockedNote
  /\ getDataPayload(t, task).statusClass = "blocked"
  /\ getDataPayload(t, task).badgeLabel = "blocked"

ShownByStatus(t, task) ==
  /\ getTaskItem(t, task).icon = STATUS_ICONS(getEffectiveTaskStatus(t, task))
  /\ ~ getTaskItem(t, task).blockedNote
  /\ getDataPayload(t, task).statusClass = getEffectiveTaskStatus(t, task)
  /\ getDataPayload(t, task).badgeLabel # "blocked"

\* C30 (blocked display): in the tree and in the dashboard a stored work item is shown
\* blocked when its stored status is pending and it has blockers, and by its status
\* otherwise; in particular an in_progress or completed item with blockers is not blocked.
C30_BlockedDisplay ==
  \A t \in StoreTeams : \A task \in Range(getTasks(t)) :
    IF task.status = "pending" /\ task.blockedBy # << >>
    THEN ShownBlocked(t, task)
    ELSE ShownByStatus(t, task) /\ ~ ShownBlocked(t, task)

\* the store holds a pending item with a blocker, shown blocked, and an in_progress item
\* with the same blocker, shown by its status
C30_Witness ==
  \E t \in StoreTeams : \E a, b \in Range(getTasks(t)) :
    /\ a.status = "pending" /\ a.blockedBy = <<"1">> /\ ShownBlocked(t, a)
    /\ b.status = "in_progress" /\ b.blockedBy = <<"1">> /\ ShownByStatus(t, b)

-----------------------------------------------------------------------------
(* Claims on instant mode *)

\* the frames of the recording in this directory have all been applied, in order
AllApplied(dir) ==
  /\ dir \in DOMAIN applied
  /\ Len(applied[dir]) = Len(loadFrames(dir))
  /\ \A k \in DOMAIN applied[dir] : applied[dir][k].frame = k

\* C31 (instant mode): a replay at speed 0 is never suspended between two of its frames:
\* no replay of speed 0 is ever active between two steps and no session is ever left
\* `playing` at speed 0, so that no other step runs between its first and last frame; the
\* step that starts it applies every frame and finishes it.
C31_InstantIsOneStep ==
  /\ \A i \in DOMAIN activeReplays : activeReplays[i].speed > 0
  /\ \A t \in DOMAIN replayState :
       replayState[t].speed = 0
         => /\ replayState[t].status = "completed"
            /\ replayState[t].currentFrame = replayState[t].totalFrames
            /\ AllApplied(replayState[t].recordingDir)

\* a recording whose frames are some time apart was replayed at speed 0, every frame applied
C31_Witness ==
  /\ "t1" \in DOMAIN replayState
  /\ replayState["t1"].speed = 0
  /\ replayState["t1"].recordingDir = DirA
  /\ replayState["t1"].status = "completed"
  /\ AllApplied(DirA)
  /\ Len(loadFrames(DirA)) >= 2
  /\ loadFrames(DirA)[2].elapsed_ms > loadFrames(DirA)[1].elapsed_ms

-----------------------------------------------------------------------------
(* Specification of descriptor writes: descriptors of one or two participants, in either *)
(* order, with changing attributes and a changing description, and removals              *)

MergeColors == {"blue", "green"}

MergeMemberLists ==
  {<<LeadMember>>}
    \cup {<<LeadMember, WorkerMember(w, c)>> : w \in Workers, c \in MergeColors}
    \cup {<<WorkerMember(w, c), LeadMember>> : w \in Workers, c \in MergeColors}

MergeDescriptors(t) ==
  [name : {t}, description : {"first", "second"}, members : MergeMemberLists]

NextMerge ==
  \E t \in TeamNames :
    \/ \E config \in MergeDescriptors(t) :
         UpdateTeam(t, config) /\ UNCHANGED <<histVars, discarded, applied>>
    \/ RemoveTeam(t) /\ UNCHANGED <<histVars, discarded, applied>>

SpecMerge == InitNotify /\ [][NextMerge]_vars

\* the union keyed by name: the stored members in their order, each with the new write's
\* attributes when the new write names it, then the members only the new write names
KeyedUnion(old, new) ==
  [i \in DOMAIN old |->
     IF \E j \in DOMAIN new : new[j].name = old[i].name
     THEN new[CHOOSE j \in DOMAIN new : new[j].name = old[i].name]
     ELSE old[i]]
    \o SelectSeq(new, LAMBDA x : x.name \notin MemberNames(old))

\* C32 (descriptor merge result): updateTeam(t, new) on a stored descriptor stores new's
\* fields with the union keyed by name as its member list and notifies teamUpdated; on a
\* session that is not stored (never written, or removed) it stores new as written and
\* notifies teamAdded; removeTeam(t) leaves no descriptor.
C32_MergeResult ==
  [][\A t \in TeamNames :
       /\ \A config \in MergeDescriptors(t) :
            UpdateTeam(t, config) =>
              IF t \in DOMAIN teams
              THEN /\ teams'[t] =
                        [config EXCEPT !.members = KeyedUnion(teams[t].members, config.members)]
                   /\ subscriber'.received[1].type = "teamUpdated"
              ELSE /\ teams'[t] = config
                   /\ subscriber'.received[1].type = "teamAdded"
       /\ RemoveTeam(t) => t \notin DOMAIN teams']_vars

\* three participants are stored although no descriptor written names more than two, the
\* one named first has the second colour it was written with, and the description is the
\* second one
C32_Witness ==
  \E t \in TeamNames :
    /\ t \in DOMAIN teams
    /\ Len(teams[t].members) = 3
    /\ teams[t].members[1] = WorkerMember("w1", "green")
    /\ teams[t].members[2] = LeadMember
    /\ teams[t].members[3].name = "w2"
    /\ teams[t].description = "second"
    /\ subscriber.received[1].type = "teamUpdated"

-----------------------------------------------------------------------------
(* Claims on the idle rule *)

\* the messages sent by p, in any inbox of the session
SentBy(t, p) == {e \in Range(AllEntries(t)) : e.from = p}

\* C33 (idle rule): when no shutdown approval by p and no shutdown request to p is stored,
\* p is active if it has sent no message; if one message of p has the greatest timestamp,
\* p is idle exactly when that message is an idle notice; and in general p is idle only if
\* some message of greatest timestamp is an idle notice.
C33_IdleRule ==
  \A t \in TeamNames : \A p \in Workers :
    (~ ApprovedBy(t, p) /\ ~ RequestedOf(t, p)) =>
      LET life == getAgentLifecycleState(t, p)
          latest == LatestSentBy(t, p)
      IN /\ life \in {"idle", "active"}
         /\ SentBy(t, p) = {} => life = "active"
         /\ Cardinality(latest) = 1 =>
              (life = "idle" <=> \A e \in latest : IsIdleNotice(e))
         /\ life = "idle" => \E e \in latest : IsIdleNotice(e)

\* w1 sent an idle notice and, later, a message that is no idle notice: active again
C33_Witness ==
  \E t \in TeamNames :
    /\ ~ ApprovedBy(t, "w1") /\ ~ RequestedOf(t, "w1")
    /\ \E e \in SentBy(t, "w1") : IsIdleNotice(e) /\ e.timestamp = 1
    /\ \E e \in SentBy(t, "w1") : ~ IsIdleNotice(e) /\ e.timestamp = 2
    /\ getAgentLifecycleState(t, "w1") = "active"

-----------------------------------------------------------------------------
(* Claims on the detector's debounce *)

\* the timeouts scheduled for a path
TimeoutsOf(d, path) == {h \in d.timeouts : h.path = path}

\* the timeouts scheduled for the other paths
OtherTimeouts(d, path) == {h \in d.timeouts : h.path # path}

\* the paths of the files on disk
WatchedPaths == UNION {PathsOf(files, t) : t \in WatchTeams}

\* C34 (detector debounce): a path never has more than one read scheduled and the map
\* holds exactly the reads scheduled; a change reported for a path leaves exactly one read
\* scheduled for it, also when one was pending, and does not touch the reads of the other
\* paths; a read that fires leaves none scheduled for its path, so a burst is read once,
\* after its last event.
C34_Debounce ==
  [][/\ \A path \in WatchedPaths' : Cardinality(TimeoutsOf(detector', path)) <= 1
     /\ detector'.debounceTimers = detector'.timeouts
     /\ \A path \in WatchedPaths :
          ChangeReported(path) =>
            /\ Cardinality(TimeoutsOf(detector', path)) = 1
            /\ OtherTimeouts(detector', path) = OtherTimeouts(detector, path)
     /\ \A handle \in detector.timeouts :
          DebounceFires(handle) =>
            /\ TimeoutsOf(detector', handle.path) = {}
            /\ OtherTimeouts(detector', handle.path) = OtherTimeouts(detector, handle.path)]_vars

\* reads of two paths are pending at once, for files that both differ from the store
C34_Witness ==
  /\ Cardinality({h.path : h \in detector.timeouts}) >= 2
  /\ \E t \in WatchTeams :
       /\ ConfigPath(t) \in {h.path : h \in detector.timeouts}
       /\ TaskPath(t, ScenTask.id) \in {h.path : h \in detector.timeouts}
       /\ t \notin DOMAIN teams

-----------------------------------------------------------------------------
(* Specification of inbox writes: inboxes written whole, shorter or longer than what is  *)
(* stored, next to descriptor and work-item writes                                       *)

InboxWrites ==
  LET e1 == Entry("w1", PlainText, 1)
      e2 == Entry("w1", TypedText("idle_notification"), 2)
  IN {<< >>, <<e1>>, <<e2>>, <<e1, e2>>}

\* history for this specification: the entries ever written to an inbox of the session
\* (all) and those of the latest write (last)
SeenInbox(t, entries) ==
  /\ seen' = [seen EXCEPT ![t] = [all |-> @.all \cup Range(entries), last |-> Range(entries)]]
  /\ UNCHANGED <<scen, removals, discarded, applied>>

NextInbox ==
  \E t \in StoreTeams :
    \/ \E a \in StoreInboxes : \E entries \in InboxWrites :
         SetMessages(t, a, entries) /\ SeenInbox(t, entries)
    \/ \E config \in RecDescriptors(t) :
         UpdateTeam(t, config) /\ UNCHANGED <<histVars, discarded, applied>>
    \/ UpdateTask(t, ScenTask) /\ UNCHANGED <<histVars, discarded, applied>>

SpecInbox == InitNotify /\ [][NextInbox]_vars

\* C35 (inbox replacement): setMessages(t, a, entries) makes inbox a of session t exactly
\* the entries written, and leaves the other inboxes of the session, the inboxes of the
\* other sessions, every descriptor and every work item as they were.
C35_InboxReplaced ==
  [][\A t \in StoreTeams : \A a \in StoreInboxes : \A entries \in InboxWrites :
       SetMessages(t, a, entries) =>
         /\ t \in DOMAIN messages'
         /\ HasInbox(messages'[t], a) /\ InboxOf(messages'[t], a) = entries
         /\ \A b \in StoreInboxes \ {a} :
              /\ HasInbox(messages'[t], b) = HasInbox(TeamMsgs(t), b)
              /\ InboxOf(messages'[t], b) = InboxOf(TeamMsgs(t), b)
         /\ \A u \in DOMAIN messages' \ {t} : u \in DOMAIN messages /\ messages'[u] = messages[u]
         /\ teams' = teams
         /\ tasks' = tasks]_vars

\* an entry written earlier is in no inbox of the session any more, while the other inbox,
\* the descriptor and the work item are stored
C35_Witness ==
  \E t \in StoreTeams :
    /\ \E e \in seen[t].all : e \notin Range(AllEntries(t))
    /\ getMessages(t, LEAD) # << >> /\ HasInbox(TeamMsgs(t), "w1")
    /\ t \in DOMAIN teams /\ getTasks(t) # << >>

-----------------------------------------------------------------------------
(* Specification of work-item writes: items of two ids written again and again with      *)
(* other owners and statuses, and removals of the session                                *)

\* history for this specification: the items ever written for the session since it was
\* last removed (all) and the latest one (last)
SeenItem(t, task) ==
  /\ seen' = [seen EXCEPT ![t] = [all |-> @.all \cup {task}, last |-> {task}]]
  /\ UNCHANGED <<scen, removals, discarded, applied>>

\* items of two ids, each written as pending and as completed
UpsertTasks == {x \in StoreTasks : x.subject = "w1" /\ x.status # "in_progress"}

NextUpsert ==
  \E t \in StoreTeams :
    \/ \E task \in UpsertTasks : UpdateTask(t, task) /\ SeenItem(t, task)
    \/ \E config \in RecDescriptors(t) :
         UpdateTeam(t, config) /\ UNCHANGED <<histVars, discarded, applied>>
    \/ RemoveTeam(t) /\ SeenRemoval(t)

SpecUpsert == InitNotify /\ [][NextUpsert]_vars

\* the ids of a list of items, in the list's order
IdsOf(ts) == [i \in DOMAIN ts |-> ts[i].id]

\* the list with the item of this id replaced whole where it stands, or put last
Upserted(old, task) ==
  IF task.id \in Range(IdsOf(old))
  THEN [i \in DOMAIN old |-> IF old[i].id = task.id THEN task ELSE old[i]]
  ELSE old \o <<task>>

\* C36 (work-item upsert): updateTask(t, task) replaces the stored item of the same id
\* where it stands, or appends the item when its id is new; so the list holds one item per
\* id written since the session was last removed, each the last value written, in order of
\* first write; only removeTeam(t) takes items away, all of them.
C36_Upsert ==
  [][\A t \in StoreTeams :
       /\ \A task \in StoreTasks :
            UpdateTask(t, task) =>
              /\ t \in DOMAIN tasks' /\ tasks'[t] = Upserted(getTasks(t), task)
              /\ \A u \in DOMAIN tasks' \ {t} : u \in DOMAIN tasks /\ tasks'[u] = tasks[u]
       /\ RemoveTeam(t) => t \notin DOMAIN tasks'
       /\ ~ RemoveTeam(t) =>
            \A i \in DOMAIN getTasks(t) :
              t \in DOMAIN tasks' /\ i \in DOMAIN tasks'[t] /\ tasks'[t][i].id = getTasks(t)[i].id
       /\ t \in DOMAIN tasks' =>
            /\ \A i, j \in DOMAIN tasks'[t] : tasks'[t][i].id = tasks'[t][j].id => i = j
            /\ Range(IdsOf(tasks'[t])) = {x.id : x \in seen'[t].all}
            /\ seen'[t].last \subseteq Range(tasks'[t])]_vars

\* two items are stored in the order their ids were first written, the second id first,
\* and a value written earlier for a stored id has been replaced
C36_Witness ==
  \E t \in StoreTeams :
    /\ Len(getTasks(t)) = 2
    /\ IdsOf(getTasks(t)) = <<"2", "1">>
    /\ \E x \in seen[t].all : x \notin Range(getTasks(t)) /\ x.id = "2"
    /\ \E x \in seen[t].all : x \notin Range(getTasks(t)) /\ x.id = "1"

-----------------------------------------------------------------------------
(* Specification of the end of a recording: descriptor, work item and leader inbox of    *)
(* one session change within one second while it is recorded; the recording is stopped  *)
(* with or without a debounced capture pending                                           *)

FinalEntries == {<< >>, <<Entry("w1", PlainText, 1)>>}

\* history for this specification: the frame of the model state that a stop found not yet
\* stored while the debounced capture was pending
SeenFlush(t) ==
  /\ seen' = [seen EXCEPT ![t] =
       IF /\ t \in debounceTimers
          /\ t \in DOMAIN teams
          /\ recorders[t].lastHash # <<hashFrame(buildFrameFromState(t))>>
       THEN [all |-> {recorders[t].outputDir}, last |-> {hashFrame(buildFrameFromState(t))}]
       ELSE @]
  /\ UNCHANGED <<scen, removals, discarded, applied>>

NextFinal ==
  \E t \in RecTeams :
       \/ \E config \in RecDescriptors(t) :
            UpdateTeam(t, config) /\ UNCHANGED <<histVars, discarded, applied>>
       \/ UpdateTask(t, ScenTask) /\ UNCHANGED <<histVars, discarded, applied>>
       \/ \E es \in FinalEntries :
            SetMessages(t, LEAD, es) /\ UNCHANGED <<histVars, discarded, applied>>
       \/ RemoveTeam(t) /\ UNCHANGED <<histVars, discarded, applied>>
       \/ TeamAppeared(t) /\ UNCHANGED <<histVars, discarded, applied>>
       \/ TimerFires(t) /\ UNCHANGED <<histVars, discarded, applied>>
       \/ TeamDisappeared(t) /\ SeenFlush(t)

SpecFinal == InitLife /\ [][NextFinal]_vars

\* the last frame stored in a recording's directory
LastFrame(dsk, dir) == dsk[dir].frames[dsk[dir].manifest[1].frameCount]

-----------------------------------------------------------------------------
(* Specification of a replay over a damaged recording, and claims on the end of a replay *)

\* a recording of t2 whose second frame file holds a session entry without descriptor
DirD == OutputDir("t2", 1)
BrokenDisk ==
  (DirA :> ReplayDisk[DirA])
  @@
  (DirD :> [manifest |-> ManifestOf("t2", 3),
            frames |-> <<
              FrameOf(0, ("t2" :> [config |-> ConfigOf("t2", ScenConfig1), inboxes |-> << >>]),
                      << >>),
              FrameOf(1, ("t2" :> [inboxes |-> << >>]), << >>),
              FrameOf(2, ("t2" :> [config |-> ConfigOf("t2", ScenConfig2), inboxes |-> << >>]),
                      << >>) >>])

InitBroken ==
  /\ teams = << >>
  /\ tasks = << >>
  /\ messages = << >>
  /\ seen = [t \in TeamNames |-> NoneSeen]
  /\ removals = [t \in TeamNames |-> NoRemoval]
  /\ scen = [t \in TeamNames |-> Off]
  /\ recorders = << >>
  /\ completedRecordings = << >>
  /\ debounceTimers = {}
  /\ disk = BrokenDisk
  /\ now = 0
  /\ discarded = {}
  /\ InitReplay
  /\ InitArchiver
  /\ subscriber = NoSubscriber
  /\ historyDir = FALSE
  /\ InitWatcher

SpecBroken == InitBroken /\ [][NextReplay]_vars

\* C38 (completed means all frames applied): a session's replay state is `completed` only
\* if every frame of its recording was applied to the store, and then currentFrame =
\* totalFrames and progressPct = 100; a replay that ends early never reports `completed`.
C38_CompletedMeansAll ==
  \A t \in DOMAIN replayState :
    replayState[t].status = "completed" =>
      /\ AllApplied(replayState[t].recordingDir)
      /\ replayState[t].currentFrame = replayState[t].totalFrames
      /\ replayState[t].progressPct = 100


\* Specification of the Replay Engine under fair timers: the two recordings of session t1
\* replayed in real time, together or one after the other, stopped and restarted; the
\* timer of a replay that waits before a frame fires in the end (setTimeout in
\* cancellableSleep)
FinishRecordings == {r \in Recordings : r.dir \in {DirA, DirB}}
FinishSelections == UNION {Perms(S) : S \in (SUBSET FinishRecordings) \ {{}}}

NextFinish ==
  \/ \E selected \in FinishSelections :
       StartReplay(selected, 1) /\ UNCHANGED <<histVars, discarded>>
  \/ \E dir \in {DirA, DirB} : SleepEnds(dir) /\ UNCHANGED <<histVars, discarded>>
  \/ StopReplay /\ UNCHANGED <<histVars, discarded>>
  \/ StopTeamReplay("t1") /\ UNCHANGED <<histVars, discarded>>
  \/ ReplayTeam("t1") /\ UNCHANGED <<histVars, discarded>>
  \/ \E recording \in FinishRecordings :
       ReplayTeamRecording("t1", recording, 1) /\ UNCHANGED <<histVars, discarded>>

SpecFinish ==
  /\ InitReplaying
  /\ [][NextFinish]_vars
  /\ \A dir \in {DirA, DirB} :
       WF_vars(SleepEnds(dir) /\ UNCHANGED <<histVars, discarded>>)

\* an active replay of this recording
ActiveReplay(dir) == \E i \in DOMAIN activeReplays : activeReplays[i].recordingDir = dir

\* a session is `playing` and the replay its state names is active and lists it
Driven(t) ==
  \E i \in DOMAIN activeReplays :
    /\ activeReplays[i].recordingDir = replayState[t].recordingDir
    /\ t \in Range(activeReplays[i].teamNames)

Finished(t) == t \in DOMAIN replayState /\ replayState[t].status \in {"completed", "stopped"}

\* a step of a replay's timer, as opposed to a command of the user
TimerStep == \E dir \in DOMAIN ReplayDisk : SleepEnds(dir)

AllFinished ==
  /\ activeReplays = << >>
  /\ \A t \in DOMAIN replayState : Finished(t)

\* C39 (replays finish): between two steps no session is `playing` without an active
\* replay that its state names and that lists it; under fair timer firing, once the user
\* issues no more commands, every replay leaves the active set and every session that was
\* `playing` ends `completed` or `stopped`, also after replayTeam restarted a replay and
\* when two replays of one session overlap.
C39_ReplaysFinish ==
  /\ [](\A t \in DOMAIN replayState : IsPlaying(replayState, t) => Driven(t))
  /\ (<>[][TimerStep]_vars) => <>[]AllFinished

\* two replays of session t1 overlapped: the one that wrote t1's state last has completed
\* and left the active set while the other one is still active
C39_Witness ==
  /\ "t1" \in DOMAIN replayState
  /\ replayState["t1"].status = "completed"
  /\ ~ ActiveReplay(replayState["t1"].recordingDir)
  /\ \E i \in DOMAIN activeReplays : "t1" \in Range(activeReplays[i].teamNames)

-----------------------------------------------------------------------------
(* Claim on sessions without descriptor *)

\* the session holds a work item or an inbox message
HoldsContent(t) ==
  \/ getTasks(t) # << >>
  \/ t \in DOMAIN messages /\ \E a \in DOMAIN messages[t] : messages[t][a] # << >>

\* C40 (no orphans): every session name that holds work items or inbox messages in the
\* State Store also has a stored descriptor.
C40_NoOrphans == \A t \in TeamNames : HoldsContent(t) => t \in DOMAIN teams

=============================================================================
